---- MODULE Spec2Model ----
(***************************************************************************)
(* A model of the GameSON type-definition registry                         *)
(* (src/src/type_definition_registry.rs) and of the attribute              *)
(* instantiation it calls (src/src/type_attributes).                       *)
(*                                                                         *)
(* It also models the value parser (src/src/value.rs).                     *)
(*                                                                         *)
(* An Arc<TypeDefinitionInstance> is modelled as an index into `arena`,    *)
(* the sequence of all instances allocated so far, in allocation order.    *)
(* BTreeMaps are functions whose domain is the set of present keys.        *)
(***************************************************************************)
EXTENDS Integers, Sequences, FiniteSets, TLC

VARIABLES
    by_id,                        \* self.by_id: Id -> Arc
    by_name,                      \* self.by_name: FieldName -> Arc
    arena,                        \* every Arc allocated, in allocation order
    type_definitions,             \* register local: the pending (refs, td) pairs
    postponed_type_definitions,   \* register local
    last_count,                   \* register local
    remaining_ids,                \* register local, set at the stalled round
    failed_type_definitions,      \* register local, returned second
    registered_type_definitions,  \* register local, returned first
    pc,                           \* position inside register
    batch,                        \* the argument of the current call
    before,                       \* the registry when the current call started
    calls,                        \* register calls since construction
    instance,                     \* parse_for argument: the type instance
    value,                        \* parse_for argument: the untyped value
    result,                       \* what parse_for produced
    formatted,                    \* what formatting the parsed Value produced
    ppc,                          \* position of the parse: idle, called, done,
                                  \* formatted
    builder,                      \* the attributes builder being filled
    built,                        \* what build or new returned
    wire,                         \* a serialized TypeAttributes
    decoded,                      \* what deserializing wire returned
    apc,                          \* position of the attributes: idle, building,
                                  \* built, serialized, roundtrip, received,
                                  \* decoded
    deps,                         \* detect_minimal_cycle argument
    detected,                     \* what detect_minimal_cycle returned
    dpc,                          \* position of the detection: idle, called, done
    ty,                           \* has_default receiver: a Type or a SimpleType
    has,                          \* what has_default returned
    tpc                           \* position of has_default: idle, called, done

vars == <<by_id, by_name, arena, type_definitions, postponed_type_definitions,
          last_count, remaining_ids, failed_type_definitions,
          registered_type_definitions, pc, batch, before, calls,
          instance, value, result, formatted, ppc,
          builder, built, wire, decoded, apc,
          deps, detected, dpc, ty, has, tpc>>

(***************************************************************************)
(* Bounds of the explored inputs.                                          *)
(***************************************************************************)
MaxId == 3
MaxName == 3
MaxBatch == 2
MaxLater == 1
MaxCalls == 2
GraphIds == 4

Ids == 1..MaxId
Names == 1..MaxName

(***************************************************************************)
(* Generic helpers.                                                        *)
(***************************************************************************)
Range(s) == {s[i] : i \in 1..Len(s)}

Min(S) == CHOOSE x \in S : \A y \in S : x <= y

RECURSIVE SetToSortedSeq(_)
SetToSortedSeq(S) ==
    IF S = {} THEN <<>> ELSE <<Min(S)>> \o SetToSortedSeq(S \ {Min(S)})

\* Faulty variant: the list is left in the order it was built.
Reverse_omitted(s) == s

RECURSIVE Reverse(_)
Reverse(s) == IF s = <<>> THEN <<>> ELSE Append(Reverse(Tail(s)), Head(s))

EmptyMap == <<>>

\* BTreeMap::insert: the key is added, or its value replaced.
MapInsert(m, k, v) == [x \in DOMAIN m \cup {k} |-> IF x = k THEN v ELSE m[x]]

\* BTreeMap::remove, the map that is left.
MapRemove(m, k) == [x \in DOMAIN m \ {k} |-> m[x]]

(***************************************************************************)
(* Type attributes (declaration form).                                     *)
(***************************************************************************)
ScalarKinds == {"Boolean", "Int32", "Int64", "Uint32", "Uint64", "Float32",
                "Float64", "String", "Enum", "Uuid"}

ArrayAttributes(i) == [type |-> "Array", items_type_id |-> i]

DictionaryAttributes(k, v) ==
    [type |-> "Dictionary", keys_type_id |-> k, values_type_id |-> v]

ScalarAttributes(kind) == [type |-> kind]

external_identifier_references(attributes) ==
    IF attributes.type = "Array" THEN <<attributes.items_type_id>>
    ELSE IF attributes.type = "Dictionary"
         THEN <<attributes.keys_type_id, attributes.values_type_id>>
         ELSE <<>>

TypeDefinition(id, name, attributes) ==
    [id |-> id, name |-> name, attributes |-> attributes]

(***************************************************************************)
(* Type attributes (instance form) and instantiation.                      *)
(***************************************************************************)
\* Faulty variant: every kind is taken for a key kind.
is_key_type_any(attributes) == TRUE

is_key_type(attributes) == attributes.type \in {"String", "Enum", "Uuid"}

\* A result of TypeAttributes::instantiate: a panic, an error or the instance form.
Panicked == [panic |-> TRUE]

InstantiationFailed(err) == [panic |-> FALSE, ok |-> FALSE, err |-> err]

Instantiated(attributes) == [panic |-> FALSE, ok |-> TRUE, attributes |-> attributes]

\* Faulty variant: the raw id is kept where the resolved Arc belongs.
ArrayInstantiate_unresolved(a, refs_by_id) ==
    IF a.items_type_id \in DOMAIN refs_by_id
    THEN Instantiated([type |-> "Array", items_type_id |-> a.items_type_id])
    ELSE Panicked

ArrayInstantiate(a, refs_by_id) ==
    IF a.items_type_id \in DOMAIN refs_by_id
    THEN Instantiated([type |-> "Array", items_type_id |-> refs_by_id[a.items_type_id]])
    ELSE Panicked

DictionaryInstantiate(d, refs_by_id, heap) ==
    IF d.keys_type_id \notin DOMAIN refs_by_id THEN Panicked
    ELSE LET keys_type_id == refs_by_id[d.keys_type_id]
             rest == MapRemove(refs_by_id, d.keys_type_id)
         IN  IF ~is_key_type(heap[keys_type_id].attributes)
             THEN InstantiationFailed(
                      [kind |-> "InappropriateKeyType",
                       key_type_id |-> heap[keys_type_id].id,
                       key_type_name |-> heap[keys_type_id].name,
                       key_type_str |-> heap[keys_type_id].attributes.type])
             ELSE IF d.values_type_id \notin DOMAIN rest THEN Panicked
             ELSE Instantiated([type |-> "Dictionary",
                                keys_type_id |-> keys_type_id,
                                values_type_id |-> rest[d.values_type_id]])

\* The error of an instantiation as register takes it apart: the attributes
\* that were handed in, next to the error.
Refused(attributes, r) ==
    [panic |-> FALSE, ok |-> FALSE, attributes |-> attributes, err |-> r.err]

instantiate(attributes, refs_by_id, heap) ==
    IF attributes.type = "Array" THEN ArrayInstantiate(attributes, refs_by_id)
    ELSE IF attributes.type = "Dictionary"
         THEN LET r == DictionaryInstantiate(attributes, refs_by_id, heap)
              IN  IF ~r.panic /\ ~r.ok THEN Refused(attributes, r) ELSE r
         ELSE Instantiated(attributes)

\* The Arcs an instance holds.
InstanceLinks(inst) ==
    IF inst.attributes.type = "Array" THEN {inst.attributes.items_type_id}
    ELSE IF inst.attributes.type = "Dictionary"
         THEN {inst.attributes.keys_type_id, inst.attributes.values_type_id}
         ELSE {}

(***************************************************************************)
(* detect_minimal_cycle.                                                   *)
(***************************************************************************)
RECURSIVE dfs(_, _, _), dfsNeighbors(_, _, _, _)

\* Faulty variant: a node stays on the current path when its call returns.
dfs_keeps_path(node, dependencies, s) ==
    LET s1 == [s EXCEPT !.visited = @ \cup {node},
                        !.in_current_path = @ \cup {node}]
    IN  IF node \in DOMAIN dependencies
        THEN dfsNeighbors(node, SetToSortedSeq(dependencies[node]), dependencies, s1)
        ELSE s1

\* One call of the nested fn dfs; s holds in_current_path, parent, visited and
\* the value returned so far (found = <<>> for None).
dfs(node, dependencies, s) ==
    LET s1 == [s EXCEPT !.visited = @ \cup {node},
                        !.in_current_path = @ \cup {node}]
        s2 == IF node \in DOMAIN dependencies
              THEN dfsNeighbors(node, SetToSortedSeq(dependencies[node]),
                                dependencies, s1)
              ELSE s1
    IN  IF s2.found # <<>> THEN s2
        ELSE [s2 EXCEPT !.in_current_path = @ \ {node}]

\* The `for neighbor in neighbors` loop of dfs, from the given neighbor on.
dfsNeighbors(node, neighbors, dependencies, s) ==
    IF neighbors = <<>> THEN s
    ELSE LET neighbor == Head(neighbors) IN
         IF neighbor \notin s.visited
         THEN LET s1 == dfs(neighbor, dependencies,
                            [s EXCEPT !.parent = MapInsert(@, neighbor, node)])
              IN  IF s1.found # <<>> THEN s1
                  ELSE dfsNeighbors(node, Tail(neighbors), dependencies, s1)
         ELSE IF neighbor \in s.in_current_path
              THEN [s EXCEPT !.found = <<neighbor, node>>]
              ELSE dfsNeighbors(node, Tail(neighbors), dependencies, s)

\* The walk over the parent pointers, from cycle_end back to cycle_start.
\* <<0>> stands for the panic of expect("parent not found"); fuel bounds the
\* recursion by the number of parent entries.
RECURSIVE WalkParents(_, _, _, _)
WalkParents(current, cycle_start, parent, fuel) ==
    IF current = cycle_start THEN <<>>
    ELSE IF current \notin DOMAIN parent \/ fuel = 0 THEN <<0>>
    ELSE <<current>> \o WalkParents(parent[current], cycle_start, parent, fuel - 1)

\* The `for node in dependencies.keys()` loop.
RECURSIVE DetectFrom(_, _, _)
DetectFrom(keys, dependencies, s) ==
    IF keys = <<>> THEN <<>>
    ELSE IF Head(keys) \in s.visited THEN DetectFrom(Tail(keys), dependencies, s)
    ELSE LET s1 == dfs(Head(keys), dependencies, s) IN
         IF s1.found = <<>> THEN DetectFrom(Tail(keys), dependencies, s1)
         ELSE LET cycle_start == s1.found[1]
                  cycle_end == s1.found[2]
                  walk == WalkParents(cycle_end, cycle_start, s1.parent,
                                      Cardinality(DOMAIN s1.parent))
              IN  Reverse((<<cycle_start>> \o walk) \o <<cycle_start>>)

detect_minimal_cycle(dependencies) ==
    DetectFrom(SetToSortedSeq(DOMAIN dependencies), dependencies,
               [in_current_path |-> {}, parent |-> EmptyMap, visited |-> {},
                found |-> <<>>])

(***************************************************************************)
(* RegistrationError values.                                               *)
(***************************************************************************)
DuplicateTypeDefinition(existing_name) ==
    [kind |-> "DuplicateTypeDefinition", existing_name |-> existing_name]

DuplicateTypeDefinitionName(existing_id) ==
    [kind |-> "DuplicateTypeDefinitionName", existing_id |-> existing_id]

BrokenReference(referenced_id) ==
    [kind |-> "BrokenReference", referenced_id |-> referenced_id]

CircularReference(cycle) == [kind |-> "CircularReference", cycle |-> cycle]

BlockedReference == [kind |-> "BlockedReference"]

InstantiationError(err) == [kind |-> "InstantiationError", err |-> err]

Failure(td, err) == [td |-> td, err |-> err]

\* Faulty variant: the two ids of a Dictionary come back exchanged.
PutBack_exchanged(td, attributes) ==
    [td EXCEPT !.attributes =
        IF attributes.type = "Dictionary"
        THEN DictionaryAttributes(attributes.values_type_id, attributes.keys_type_id)
        ELSE attributes]

\* Lines 160-161: the attributes an instantiation error returns go back into
\* the declaration they were moved out of.
PutBack(td, attributes) == [td EXCEPT !.attributes = attributes]

(***************************************************************************)
(* TypeDefinitionRegistry::register, as steps over a record s that holds   *)
(* the registry and the locals of the call.                                *)
(***************************************************************************)
State ==
    [by_id |-> by_id, by_name |-> by_name, arena |-> arena,
     type_definitions |-> type_definitions,
     postponed_type_definitions |-> postponed_type_definitions,
     last_count |-> last_count,
     remaining_ids |-> remaining_ids,
     failed_type_definitions |-> failed_type_definitions,
     registered_type_definitions |-> registered_type_definitions,
     pc |-> pc]

\* Faulty variant: last_count starts one above the number of declarations.
Enter_last_count_off(reg, tds) ==
    [by_id |-> reg.by_id, by_name |-> reg.by_name, arena |-> reg.arena,
     type_definitions |->
         [i \in 1..Len(tds) |->
             [refs |-> external_identifier_references(tds[i].attributes),
              td |-> tds[i]]],
     postponed_type_definitions |-> <<>>,
     last_count |-> Len(tds) + 1,
     remaining_ids |-> {},
     failed_type_definitions |-> <<>>,
     registered_type_definitions |-> <<>>,
     pc |-> "loop"]

\* Lines 84-102: pair every declaration with its references, set up the locals.
Enter(reg, tds) ==
    [by_id |-> reg.by_id, by_name |-> reg.by_name, arena |-> reg.arena,
     type_definitions |->
         [i \in 1..Len(tds) |->
             [refs |-> external_identifier_references(tds[i].attributes),
              td |-> tds[i]]],
     postponed_type_definitions |-> <<>>,
     last_count |-> Len(tds),
     remaining_ids |-> {},
     failed_type_definitions |-> <<>>,
     registered_type_definitions |-> <<>>,
     pc |-> "loop"]

\* sort_by_key(|(refs, _)| refs.len()): a stable sort, smallest key first.
RECURSIVE SortFrom(_, _, _)
SortFrom(s, k, maxKey) ==
    IF k > maxKey THEN <<>>
    ELSE SelectSeq(s, LAMBDA x : Len(x.refs) = k) \o SortFrom(s, k + 1, maxKey)

\* Faulty variant: the round takes the pending list as it stands.
sort_by_refs_len_omitted(s) == s

sort_by_refs_len(s) == SortFrom(s, 0, 2)

\* Faulty variant: the instance is not entered into by_name.
insert_type_definition_instance_by_id_only(s, type_definition_instance) ==
    LET arc == Len(s.arena) + 1 IN
    [s EXCEPT !.arena = Append(@, type_definition_instance),
              !.by_id = MapInsert(@, type_definition_instance.id, arc)]

\* Lines 278-294; the Arc returned is the index of the new allocation.
insert_type_definition_instance(s, type_definition_instance) ==
    LET arc == Len(s.arena) + 1 IN
    [s EXCEPT !.arena = Append(@, type_definition_instance),
              !.by_id = MapInsert(@, type_definition_instance.id, arc),
              !.by_name = MapInsert(@, type_definition_instance.name, arc)]

\* Faulty variant: the Arc is put in front of the succeeded list.
PushRegistered_front(s) ==
    [s EXCEPT !.registered_type_definitions = <<Len(s.arena)>> \o @]

\* Lines 179-180: the Arc just inserted goes to the end of the succeeded list.
PushRegistered(s) ==
    [s EXCEPT !.registered_type_definitions = Append(@, Len(s.arena))]

\* Faulty variant: the id is looked up only once the references are resolved.
DuplicateId_when_resolved(s, td) ==
    /\ td.id \in DOMAIN s.by_id
    /\ \A r \in Range(external_identifier_references(td.attributes)) :
           r \in DOMAIN s.by_id

\* Faulty variant: the id is never looked up.
DuplicateId_unchecked(s, td) == FALSE

\* Line 113.
DuplicateId(s, td) == td.id \in DOMAIN s.by_id

\* Faulty variant: the name is never looked up.
DuplicateName_unchecked(s, td) == FALSE

\* Line 124.
DuplicateName(s, td) == td.name \in DOMAIN s.by_name

\* Faulty variant: a declaration without references is postponed too.
MissingReference_or_none(s, refs) ==
    refs = <<>> \/ \E i \in 1..Len(refs) : refs[i] \notin DOMAIN s.by_id

\* Lines 137-153: some reference is not registered yet.
MissingReference(s, refs) == \E i \in 1..Len(refs) : refs[i] \notin DOMAIN s.by_id

\* The map the `for ref_ in &refs` loop builds when no reference is missing.
RefsById(s, refs) == [r \in Range(refs) |-> s.by_id[r]]

\* Lines 111-181, the body of the 'outer loop for one (refs, td).
ProcessDecl(s, item) ==
    LET td == item.td
        refs == item.refs
    IN  IF DuplicateId(s, td)
        THEN [s EXCEPT !.failed_type_definitions =
                 Append(@, Failure(td, DuplicateTypeDefinition(
                                           s.arena[s.by_id[td.id]].name)))]
        ELSE IF DuplicateName(s, td)
        THEN [s EXCEPT !.failed_type_definitions =
                 Append(@, Failure(td, DuplicateTypeDefinitionName(
                                           s.arena[s.by_name[td.name]].id)))]
        ELSE IF MissingReference(s, refs)
        THEN [s EXCEPT !.postponed_type_definitions = Append(@, item)]
        ELSE LET res == instantiate(td.attributes, RefsById(s, refs), s.arena) IN
             IF res.panic THEN [s EXCEPT !.pc = "panicked"]
             ELSE IF ~res.ok
             THEN [s EXCEPT !.failed_type_definitions =
                      Append(@, Failure(PutBack(td, res.attributes),
                                        InstantiationError(res.err)))]
             ELSE PushRegistered(insert_type_definition_instance(
                      s, [id |-> td.id, name |-> td.name,
                          attributes |-> res.attributes]))

RECURSIVE ForEachDecl(_, _)
ForEachDecl(s, items) ==
    IF items = <<>> \/ s.pc = "panicked" THEN s
    ELSE ForEachDecl(ProcessDecl(s, Head(items)), Tail(items))

\* Lines 105-187 and 270-272: one iteration of the while loop up to the test
\* that compares the number of postponed declarations with last_count.
Round(s) ==
    LET r == ForEachDecl([s EXCEPT !.type_definitions = <<>>],
                         sort_by_refs_len(s.type_definitions))
    IN  IF r.pc = "panicked" THEN r
        ELSE LET taken == [r EXCEPT !.type_definitions = r.postponed_type_definitions,
                                    !.postponed_type_definitions = <<>>]
             IN  IF Len(taken.type_definitions) = taken.last_count
                 THEN [taken EXCEPT !.pc = "stalled"]
                 ELSE [taken EXCEPT !.last_count = Len(taken.type_definitions)]

\* Line 105 when the pending list is empty, then line 275.
WhileExit(s) == [s EXCEPT !.pc = "returned"]

\* Faulty variant: a reference counts as broken as soon as it is not pending.
RECURSIVE FirstBroken_not_pending(_, _, _)
FirstBroken_not_pending(refs, remaining, registered) ==
    IF refs = <<>> THEN 0
    ELSE IF Head(refs) \notin remaining THEN Head(refs)
         ELSE FirstBroken_not_pending(Tail(refs), remaining, registered)

\* Lines 196-207: the first reference that is neither pending nor registered,
\* 0 when there is none.
RECURSIVE FirstBroken(_, _, _)
FirstBroken(refs, remaining, registered) ==
    IF refs = <<>> THEN 0
    ELSE IF ~(Head(refs) \in remaining \/ Head(refs) \in registered)
         THEN Head(refs)
         ELSE FirstBroken(Tail(refs), remaining, registered)

RECURSIVE BrokenLoop(_, _, _)
BrokenLoop(s, items, remaining) ==
    IF items = <<>> THEN s
    ELSE LET item == Head(items)
             broken == FirstBroken(item.refs, remaining, DOMAIN s.by_id)
         IN  BrokenLoop(
                 IF broken # 0
                 THEN [s EXCEPT !.failed_type_definitions =
                          Append(@, Failure(item.td, BrokenReference(broken)))]
                 ELSE [s EXCEPT !.postponed_type_definitions = Append(@, item)],
                 Tail(items), remaining)

\* Lines 188-212: the broken references of a stalled round.
CheckBroken(s) ==
    LET remaining == {s.type_definitions[i].td.id :
                          i \in 1..Len(s.type_definitions)}
        r == BrokenLoop([s EXCEPT !.type_definitions = <<>>,
                                  !.remaining_ids = remaining],
                        s.type_definitions, remaining)
    IN  [r EXCEPT !.type_definitions = r.postponed_type_definitions,
                  !.postponed_type_definitions = <<>>,
                  !.pc = "cycles"]

\* Lines 216-219: collect() into a BTreeMap keeps, for an id that occurs more
\* than once, the references of its last declaration.
Dependencies(items) ==
    LET ids == {items[i].td.id : i \in 1..Len(items)}
        last(id) == CHOOSE i \in 1..Len(items) :
                        /\ items[i].td.id = id
                        /\ \A j \in (i + 1)..Len(items) : items[j].td.id # id
    IN  [id \in ids |-> Range(items[last(id)].refs)]

CycleOf(s) == detect_minimal_cycle(Dependencies(s.type_definitions))

\* Lines 245-249: the first cyclic declaration with the id, <<>> when the
\* expect() panics.
FindById(tds, id) ==
    IF \E i \in 1..Len(tds) : tds[i].id = id
    THEN LET i == Min({j \in 1..Len(tds) : tds[j].id = id})
         IN  <<tds[i].id, tds[i].name>>
    ELSE <<>>

RECURSIVE PushCircular(_, _, _)
PushCircular(failed, tds, cycle) ==
    IF tds = <<>> THEN failed
    ELSE PushCircular(Append(failed, Failure(Head(tds), CircularReference(cycle))),
                      Tail(tds), cycle)

\* Lines 228-260: one iteration of the cycle loop that found a cycle.
ExtractCycle(s) ==
    LET cycle == CycleOf(s)
        InCycle(item) == item.td.id \in Range(cycle)
        cyclic == SelectSeq(s.type_definitions, InCycle)
        cyclic_type_definitions == [i \in 1..Len(cyclic) |-> cyclic[i].td]
        others == SelectSeq(s.type_definitions, LAMBDA item : ~InCycle(item))
        named == [i \in 1..Len(cycle) |-> FindById(cyclic_type_definitions, cycle[i])]
    IN  IF \E i \in 1..Len(named) : named[i] = <<>>
        THEN [s EXCEPT !.pc = "panicked"]
        ELSE [s EXCEPT !.type_definitions = <<>>,
                       !.postponed_type_definitions = @ \o others,
                       !.failed_type_definitions =
                           PushCircular(@, cyclic_type_definitions, named)]

RECURSIVE PushBlocked(_, _)
PushBlocked(failed, items) ==
    IF items = <<>> THEN failed
    ELSE PushBlocked(Append(failed, Failure(Head(items).td, BlockedReference)),
                     Tail(items))

\* Lines 223-226 and 263-275: no cycle is found, the postponed declarations
\* are blocked and the call returns.
FinishStalled(s) ==
    [s EXCEPT !.failed_type_definitions =
                  PushBlocked(@, s.postponed_type_definitions),
              !.postponed_type_definitions = <<>>,
              !.pc = "returned"]

\* The step register takes from the position s.pc.
Step(s) ==
    IF s.pc = "loop"
    THEN IF s.type_definitions = <<>> THEN WhileExit(s) ELSE Round(s)
    ELSE IF s.pc = "stalled" THEN CheckBroken(s)
    ELSE IF CycleOf(s) # <<>> THEN ExtractCycle(s)
    ELSE FinishStalled(s)

RECURSIVE RunToEnd(_)
RunToEnd(s) == IF s.pc \in {"returned", "panicked"} THEN s ELSE RunToEnd(Step(s))

\* A whole call of register on the registry reg.
register(reg, tds) == RunToEnd(Enter(reg, tds))

(***************************************************************************)
(* The state machine.                                                      *)
(***************************************************************************)
Apply(s) ==
    /\ by_id' = s.by_id
    /\ by_name' = s.by_name
    /\ arena' = s.arena
    /\ type_definitions' = s.type_definitions
    /\ postponed_type_definitions' = s.postponed_type_definitions
    /\ last_count' = s.last_count
    /\ remaining_ids' = s.remaining_ids
    /\ failed_type_definitions' = s.failed_type_definitions
    /\ registered_type_definitions' = s.registered_type_definitions
    /\ pc' = s.pc
    /\ UNCHANGED <<instance, value, result, formatted, ppc>>
    /\ UNCHANGED <<builder, built, wire, decoded, apc>>
    /\ UNCHANGED <<deps, detected, dpc, ty, has, tpc>>

Registry == [by_id |-> by_id, by_name |-> by_name, arena |-> arena]

Init ==
    /\ by_id = EmptyMap
    /\ by_name = EmptyMap
    /\ arena = <<>>
    /\ type_definitions = <<>>
    /\ postponed_type_definitions = <<>>
    /\ last_count = 0
    /\ remaining_ids = {}
    /\ failed_type_definitions = <<>>
    /\ registered_type_definitions = <<>>
    /\ pc = "idle"
    /\ batch = <<>>
    /\ before = [by_id |-> EmptyMap, by_name |-> EmptyMap, arena |-> <<>>]
    /\ calls = 0
    /\ instance = <<>>
    /\ value = <<>>
    /\ result = <<>>
    /\ formatted = <<>>
    /\ ppc = "idle"
    /\ builder = <<>>
    /\ built = <<>>
    /\ wire = <<>>
    /\ decoded = <<>>
    /\ apc = "idle"
    /\ deps = <<>>
    /\ detected = <<>>
    /\ dpc = "idle"
    /\ ty = <<>>
    /\ has = FALSE
    /\ tpc = "idle"

\* A call of register with the batch tds.
Register(tds) ==
    /\ pc \in {"idle", "returned"}
    /\ Apply(Enter(Registry, tds))
    /\ batch' = tds
    /\ before' = Registry
    /\ calls' = calls + 1

DoRound ==
    /\ pc = "loop"
    /\ type_definitions # <<>>
    /\ Apply(Round(State))
    /\ UNCHANGED <<batch, before, calls>>

DoWhileExit ==
    /\ pc = "loop"
    /\ type_definitions = <<>>
    /\ Apply(WhileExit(State))
    /\ UNCHANGED <<batch, before, calls>>

DoCheckBroken ==
    /\ pc = "stalled"
    /\ Apply(CheckBroken(State))
    /\ UNCHANGED <<batch, before, calls>>

DoExtractCycle ==
    /\ pc = "cycles"
    /\ CycleOf(State) # <<>>
    /\ Apply(ExtractCycle(State))
    /\ UNCHANGED <<batch, before, calls>>

DoFinishStalled ==
    /\ pc = "cycles"
    /\ CycleOf(State) = <<>>
    /\ Apply(FinishStalled(State))
    /\ UNCHANGED <<batch, before, calls>>

Steps ==
    \/ DoRound
    \/ DoWhileExit
    \/ DoCheckBroken
    \/ DoExtractCycle
    \/ DoFinishStalled

(***************************************************************************)
(* The declarations and batches submitted.                                 *)
(***************************************************************************)
BatchKinds == {"String", "Int32"}

AttributesOver(kinds, refIds) ==
    {ScalarAttributes(k) : k \in kinds}
        \cup {ArrayAttributes(i) : i \in refIds}
        \cup {DictionaryAttributes(k, v) : k \in refIds, v \in refIds}

Declarations ==
    {TypeDefinition(id, name, a) :
        id \in Ids, name \in Names, a \in AttributesOver(BatchKinds, Ids)}

SeqsUpTo(S, n) == UNION {[1..k -> S] : k \in 0..n}

\* The first call takes a batch of up to MaxBatch declarations, the later
\* calls one of up to MaxLater.
FirstBatches == SeqsUpTo(Declarations, MaxBatch)

LaterBatches == SeqsUpTo(Declarations, MaxLater)

FirstCall == calls = 0 /\ \E tds \in FirstBatches : Register(tds)

LaterCall == calls \in 1..(MaxCalls - 1) /\ \E tds \in LaterBatches : Register(tds)

Next ==
    \/ FirstCall
    \/ LaterCall
    \/ Steps

Spec == Init /\ [][Next]_vars

(***************************************************************************)
(* Reference graphs: one call on an empty registry with a batch that       *)
(* declares each id of 1..GraphIds at most once, in ascending order, under *)
(* a name of its own; the references range over 1..GraphIds + 1, so that   *)
(* GraphIds + 1 is never declared.  At most one declaration is a           *)
(* Dictionary, whose two ids differ.                                       *)
(***************************************************************************)
GraphRefs == 1..(GraphIds + 1)

GraphOptions ==
    {[type |-> "Absent"], ScalarAttributes("String")}
        \cup {ArrayAttributes(i) : i \in GraphRefs}
        \cup {DictionaryAttributes(k, v) : k \in GraphRefs, v \in GraphRefs}

GraphChoices ==
    {c \in [1..GraphIds -> GraphOptions] :
        /\ Cardinality({i \in 1..GraphIds : c[i].type = "Dictionary"}) <= 1
        /\ \A i \in 1..GraphIds :
               c[i].type = "Dictionary" => c[i].keys_type_id < c[i].values_type_id}

GraphBatchOf(c) ==
    LET present == SetToSortedSeq({i \in 1..GraphIds : c[i].type # "Absent"})
    IN  [k \in 1..Len(present) |-> TypeDefinition(present[k], present[k], c[present[k]])]

GraphBatches == {GraphBatchOf(c) : c \in GraphChoices}

GraphCall == calls = 0 /\ \E tds \in GraphBatches : Register(tds)

NextGraph ==
    \/ GraphCall
    \/ Steps

SpecGraph == Init /\ [][NextGraph]_vars

(***************************************************************************)
(* A registry that holds one Int32, then a batch of FollowLen               *)
(* declarations.  Ids and names may repeat within the batch and may repeat *)
(* those of the scalar; neither the ids nor the names decrease along the   *)
(* batch.                                                                  *)
(***************************************************************************)
FollowLen == 3

SeedBatches == {<<TypeDefinition(1, 1, ScalarAttributes("Int32"))>>}

SeedCall == calls = 0 /\ \E tds \in SeedBatches : Register(tds)

Ascending(S) == {f \in [1..FollowLen -> S] :
                    \A k \in 1..(FollowLen - 1) : f[k] <= f[k + 1]}

FollowCall ==
    /\ calls = 1
    /\ \E ids \in Ascending(Ids) : \E names \in Ascending(Names) :
           \E as \in [1..FollowLen -> AttributesOver(BatchKinds, Ids)] :
               Register([k \in 1..FollowLen |->
                            TypeDefinition(ids[k], names[k], as[k])])

NextFollow ==
    \/ SeedCall
    \/ FollowCall
    \/ Steps

SpecFollow == Init /\ [][NextFollow]_vars

(***************************************************************************)
(* Untyped input (serde_json::Value).  A Number is PosInt(u64),            *)
(* NegInt(i64) or Float(f64); an integer of up to 64 bits is written in    *)
(* three limbs <<a, b, c>> of base 2^30, standing for a * 2^60 + b * 2^30  *)
(* + c with b and c in 0..2^30 - 1, so that the bounds of i32, i64 and u64 *)
(* are exact.                                                              *)
(***************************************************************************)
LimbBase == 2^30

\* The limbs of an integer k of the i32 range.
Wide(k) ==
    IF k >= 0 THEN <<0, k \div LimbBase, k % LimbBase>>
    ELSE LET n == -(k + 1)
         IN  <<-1, LimbBase - 1 - (n \div LimbBase), LimbBase - 1 - (n % LimbBase)>>

\* x <= y on limbs.
WideLeq(x, y) ==
    \/ x[1] < y[1]
    \/ x[1] = y[1] /\ x[2] < y[2]
    \/ x[1] = y[1] /\ x[2] = y[2] /\ x[3] <= y[3]

I32_MIN == <<-1, LimbBase - 2, 0>>

I32_MAX == <<0, 1, LimbBase - 1>>

I64_MAX == <<7, LimbBase - 1, LimbBase - 1>>

\* The integer of the limbs w, for w within the i32 range.
NarrowToI32(w) ==
    IF w[1] = 0 THEN w[2] * LimbBase + w[3]
    ELSE (w[2] - LimbBase) * LimbBase + w[3]

PosInt(w) == [repr |-> "PosInt", w |-> w]

NegInt(w) == [repr |-> "NegInt", w |-> w]

\* A float, kept as its integral part and its tenths.
Float(whole, tenths) == [repr |-> "Float", whole |-> whole, tenths |-> tenths]

JNull == [t |-> "Null"]

JBool(b) == [t |-> "Bool", b |-> b]

JNumber(n) == [t |-> "Number", n |-> n]

JString(str) == [t |-> "String", s |-> str]

JArray(items) == [t |-> "Array", items |-> items]

\* entries: a sequence of <<key, value>> pairs in iteration order.
JObject(entries) == [t |-> "Object", entries |-> entries]

None == [some |-> FALSE]

Some(v) == [some |-> TRUE, v |-> v]

\* serde_json::Number::as_i64: the integer when the number is one that fits i64.
as_i64(n) ==
    IF n.repr = "Float" THEN None
    ELSE IF n.repr = "PosInt" /\ ~WideLeq(n.w, I64_MAX) THEN None
    ELSE Some(n.w)

\* i32::try_from(i64).
try_into_i32(w) ==
    IF WideLeq(I32_MIN, w) /\ WideLeq(w, I32_MAX) THEN Some(NarrowToI32(w)) ELSE None

(***************************************************************************)
(* Type instances handed to the parser, with the Arcs followed.            *)
(***************************************************************************)
NumberTypeAttributes(min, max) == [min |-> min, max |-> max]

Int32Instance(id, min, max) ==
    [id |-> id, name |-> id,
     attributes |-> [type |-> "Int32", number |-> NumberTypeAttributes(min, max)]]

\* An instance of the numeric kind (Int32, Int64, Uint32, Uint64, Float32, Float64).
NumberInstance(id, kind, min, max) ==
    [id |-> id, name |-> id,
     attributes |-> [type |-> kind, number |-> NumberTypeAttributes(min, max)]]

ScalarInstance(id, kind) == [id |-> id, name |-> id, attributes |-> [type |-> kind]]

ArrayInstance(id, items) ==
    [id |-> id, name |-> id, attributes |-> [type |-> "Array", items_type_id |-> items]]

DictionaryInstance(id, keys, values) ==
    [id |-> id, name |-> id,
     attributes |-> [type |-> "Dictionary", keys_type_id |-> keys,
                     values_type_id |-> values]]

\* NumberTypeAttributes::validate.
validate(a, v) ==
    IF a.min.some /\ v < a.min.v
    THEN [ok |-> FALSE, err |-> [kind |-> "LessThanMin", value |-> v, bound |-> a.min.v]]
    ELSE IF a.max.some /\ v > a.max.v
    THEN [ok |-> FALSE, err |-> [kind |-> "GreaterThanMax", value |-> v, bound |-> a.max.v]]
    ELSE [ok |-> TRUE]

(***************************************************************************)
(* ValueImpl::parse_for and Value::parse_for.  A result holds the path as  *)
(* the call left it and an outcome: "ok" with the value, "err" with the    *)
(* ParseImplError, or "panic" with the message.                            *)
(***************************************************************************)
\* Faulty variant: the elements are counted from 1.
ArrayIndex_from_one(i) == [segment |-> "ArrayIndex", index |-> i + 1]

ArrayIndex(i) == [segment |-> "ArrayIndex", index |-> i]

DictionaryKey(k) == [segment |-> "DictionaryKey", key |-> k]

ParsedOk(path, v) == [path |-> path, outcome |-> "ok", value |-> v]

ParsedErr(path, err) == [path |-> path, outcome |-> "err", err |-> err]

ParsePanic(path, msg) == [path |-> path, outcome |-> "panic", msg |-> msg]

InvalidInt32(err) == [kind |-> "InvalidInt32", err |-> err]

InvalidDictionaryKey(err) == [kind |-> "InvalidDictionaryKey", err |-> err]

InvalidDictionaryValue(err) == [kind |-> "InvalidDictionaryValue", err |-> err]

\* Faulty variant: the value is built as an Int64.
ParseInt32_as_int64(path, a, n) ==
    LET wide == as_i64(n) IN
    IF ~wide.some THEN ParsedErr(path, InvalidInt32([kind |-> "InvalidValue"]))
    ELSE LET v == try_into_i32(wide.v) IN
         IF ~v.some THEN ParsePanic(path, "failed to convert i64 to i32")
         ELSE LET checked == validate(a, v.v) IN
              IF ~checked.ok THEN ParsedErr(path, InvalidInt32(checked.err))
              ELSE ParsedOk(path, [t |-> "Int64", v |-> v.v])

\* Lines 287-297.
ParseInt32(path, a, n) ==
    LET wide == as_i64(n) IN
    IF ~wide.some THEN ParsedErr(path, InvalidInt32([kind |-> "InvalidValue"]))
    ELSE LET v == try_into_i32(wide.v) IN
         IF ~v.some THEN ParsePanic(path, "failed to convert i64 to i32")
         ELSE LET checked == validate(a, v.v) IN
              IF ~checked.ok THEN ParsedErr(path, InvalidInt32(checked.err))
              ELSE ParsedOk(path, [t |-> "Int32", v |-> v.v])

\* Faulty variant: the segment is left on the path.
Pop_nothing(path) == path

\* ParseErrorPath::pop, on a path that is not empty.
Pop(path) == SubSeq(path, 1, Len(path) - 1)

RECURSIVE ValueImpl_parse_for(_, _, _), ParseItems(_, _, _, _, _),
          ParseEntries(_, _, _, _, _)

\* Faulty variant: a parsed element is put in front of the ones before it.
RECURSIVE ParseItems_reversed(_, _, _, _, _)
ParseItems_reversed(path, a, v, i, items) ==
    IF i = Len(v) THEN ParsedOk(path, [t |-> "Array", items |-> items])
    ELSE LET r == ValueImpl_parse_for(Append(path, ArrayIndex(i)),
                                      a.items_type_id, v[i + 1])
         IN  IF r.outcome # "ok" THEN r
             ELSE IF r.path = <<>> THEN ParsePanic(r.path, "pop from empty path")
             ELSE ParseItems_reversed(Pop(r.path), a, v, i + 1, <<r.value>> \o items)

\* Lines 244-258: the elements from index i (counted from 0) on.
ParseItems(path, a, v, i, items) ==
    IF i = Len(v) THEN ParsedOk(path, [t |-> "Array", items |-> items])
    ELSE LET r == ValueImpl_parse_for(Append(path, ArrayIndex(i)),
                                      a.items_type_id, v[i + 1])
         IN  IF r.outcome # "ok" THEN r
             ELSE IF r.path = <<>> THEN ParsePanic(r.path, "pop from empty path")
             ELSE ParseItems(Pop(r.path), a, v, i + 1, Append(items, r.value))

\* Lines 261-282: the entries from the i-th (counted from 0) on.
ParseEntries(path, a, v, i, items) ==
    IF i = Len(v) THEN ParsedOk(path, [t |-> "Dictionary", items |-> items])
    ELSE LET k == v[i + 1][1]
             pushed == Append(path, DictionaryKey(k))
             key == ValueImpl_parse_for(pushed, a.keys_type_id, JString(k))
         IN  IF key.outcome = "panic" THEN key
             ELSE IF key.outcome = "err"
             THEN ParsedErr(key.path, InvalidDictionaryKey(key.err))
             ELSE LET val == ValueImpl_parse_for(key.path, a.values_type_id,
                                                 v[i + 1][2])
                  IN  IF val.outcome = "panic" THEN val
                      ELSE IF val.outcome = "err"
                      THEN ParsedErr(val.path, InvalidDictionaryValue(val.err))
                      ELSE IF val.path = <<>>
                      THEN ParsePanic(val.path, "pop from empty path")
                      ELSE ParseEntries(Pop(val.path), a, v, i + 1,
                                        Append(items, <<key.value, val.value>>))

\* Lines 237-300.
ValueImpl_parse_for(path, inst, v) ==
    LET a == inst.attributes IN
    IF a.type = "Array" /\ v.t = "Array" THEN ParseItems(path, a, v.items, 0, <<>>)
    ELSE IF a.type = "Dictionary" /\ v.t = "Object"
    THEN ParseEntries(path, a, v.entries, 0, <<>>)
    ELSE IF a.type = "Boolean" /\ v.t = "Bool"
    THEN ParsedOk(path, [t |-> "Boolean", v |-> v.b])
    ELSE IF a.type = "Int32" /\ v.t = "Number" THEN ParseInt32(path, a.number, v.n)
    ELSE ParsePanic(path, "not implemented")

\* Lines 103-119: Value::parse_for, which starts from the empty path.
parse_for(inst, v) ==
    LET r == ValueImpl_parse_for(<<>>, inst, v) IN
    IF r.outcome = "ok"
    THEN [outcome |-> "ok", instance |-> inst, value |-> r.value, path |-> r.path]
    ELSE IF r.outcome = "err"
    THEN [outcome |-> "err", instance |-> inst, path |-> r.path, err |-> r.err]
    ELSE r

(***************************************************************************)
(* ValueImpl::fmt_for: the text written, or the panic of the last arm.     *)
(***************************************************************************)
Written(out) == [panic |-> FALSE, out |-> out]

FmtPanic == [panic |-> TRUE, msg |-> "inconsistent value and type attributes"]

FmtBool(b) == IF b THEN "true" ELSE "false"

RECURSIVE fmt_for(_, _), FmtItems(_, _, _, _), FmtEntries(_, _, _, _)

\* Lines 173-178: the items from the i-th (counted from 0) on, written after out.
FmtItems(items, a, i, out) ==
    IF i = Len(items) THEN Written(out)
    ELSE LET w == fmt_for(items[i + 1], a.items_type_id) IN
         IF w.panic THEN w
         ELSE FmtItems(items, a, i + 1,
                       (out \o (IF i > 0 THEN ", " ELSE "")) \o w.out)

\* Lines 183-190.
FmtEntries(items, a, i, out) ==
    IF i = Len(items) THEN Written(out)
    ELSE LET k == fmt_for(items[i + 1][1], a.keys_type_id) IN
         IF k.panic THEN k
         ELSE LET w == fmt_for(items[i + 1][2], a.values_type_id) IN
              IF w.panic THEN w
              ELSE FmtEntries(items, a, i + 1,
                       (((out \o (IF i > 0 THEN ", " ELSE "")) \o k.out) \o ": ")
                           \o w.out)

\* Lines 165-216.
fmt_for(v, inst) ==
    LET a == inst.attributes IN
    IF v.t = "Array" /\ a.type = "Array"
    THEN LET w == FmtItems(v.items, a, 0, "[") IN
         IF w.panic THEN w ELSE Written(w.out \o "]")
    ELSE IF v.t = "Dictionary" /\ a.type = "Dictionary"
    THEN LET w == FmtEntries(v.items, a, 0, "{") IN
         IF w.panic THEN w ELSE Written(w.out \o "}")
    ELSE IF v.t = "Boolean" /\ a.type = "Boolean" THEN Written(FmtBool(v.v))
    ELSE IF v.t = a.type
            /\ v.t \in {"Int32", "Int64", "Uint32", "Uint64", "Float32", "Float64"}
    THEN Written(ToString(v.v))
    ELSE IF v.t = "String" /\ a.type = "String" THEN Written(("\"" \o v.v) \o "\"")
    ELSE IF v.t = "Enum" /\ a.type = "Enum"
    THEN Written((ToString(inst.name) \o "::") \o ToString(v.v))
    ELSE IF v.t = "Uuid" /\ a.type = "Uuid" THEN Written(("\"" \o v.v) \o "\"")
    ELSE FmtPanic

(***************************************************************************)
(* The parser as a state machine: a call with an instance and an untyped   *)
(* value, then its result, then the Display of a Value that was returned.  *)
(***************************************************************************)
MaxArrayLen == 3

Int32Plain == Int32Instance(1, None, None)

Int32Ranged == Int32Instance(2, Some(0), Some(10))

NumericKinds == {"Int32", "Int64", "Uint32", "Uint64", "Float32", "Float64"}

ParseInstances ==
    {Int32Plain, Int32Ranged, ScalarInstance(3, "Boolean"), ScalarInstance(4, "String"),
     ArrayInstance(5, Int32Plain), ArrayInstance(6, Int32Ranged),
     ArrayInstance(7, ArrayInstance(5, Int32Plain)),
     DictionaryInstance(8, ScalarInstance(4, "String"), Int32Plain),
     ArrayInstance(9, ArrayInstance(6, Int32Ranged))}
        \cup {NumberInstance(2, kind, Some(0), Some(10)) : kind \in NumericKinds}

\* One more than i32::MAX, one less than i32::MIN, one more than i64::MAX.
ParseNumbers ==
    {PosInt(Wide(k)) : k \in {0, 1, 3, 5, 10, 11}}
        \cup {PosInt(I32_MAX), PosInt(<<0, 2, 0>>), PosInt(I64_MAX), PosInt(<<8, 0, 0>>)}
        \cup {NegInt(Wide(-1)), NegInt(I32_MIN),
              NegInt(<<-1, LimbBase - 3, LimbBase - 1>>)}
        \cup {Float(1, 5), Float(11, 0)}

ParseScalars ==
    {JNull, JBool(TRUE), JString("x")} \cup {JNumber(n) : n \in ParseNumbers}

ParseElements ==
    {JNumber(PosInt(Wide(1))), JNumber(PosInt(Wide(3))), JString("x"),
     JNumber(PosInt(<<0, 2, 0>>)), JNumber(PosInt(Wide(2))), JNumber(PosInt(Wide(11)))}

ParseArrays == {JArray(items) : items \in SeqsUpTo(ParseElements, MaxArrayLen)}

ParseNested ==
    {JArray(rows) :
        rows \in SeqsUpTo({JArray(<<>>), JArray(<<JNumber(PosInt(Wide(1)))>>),
                           JArray(<<JNumber(PosInt(Wide(1))), JString("x")>>),
                           JArray(<<JNumber(PosInt(Wide(3))),
                                    JNumber(PosInt(Wide(11)))>>)}, 2)}

ParseObjects ==
    {JObject(<<>>), JObject(<<<<"a", JNumber(PosInt(Wide(1)))>>>>),
     JObject(<<<<"a", JNumber(PosInt(Wide(1)))>>, <<"b", JNumber(PosInt(Wide(3)))>>>>),
     JObject(<<<<"a", JString("x")>>>>)}

ParseValues == ParseScalars \cup ParseArrays \cup ParseNested \cup ParseObjects

RegistryIdle ==
    UNCHANGED <<by_id, by_name, arena, type_definitions, postponed_type_definitions,
                last_count, remaining_ids, failed_type_definitions,
                registered_type_definitions, pc, batch, before, calls>>

AttributesIdle == UNCHANGED <<builder, built, wire, decoded, apc>>

ParserIdle == UNCHANGED <<instance, value, result, formatted, ppc>>

DetectIdle == UNCHANGED <<deps, detected, dpc>>

TypeIdle == UNCHANGED <<ty, has, tpc>>

ParseCall ==
    /\ ppc \in {"idle", "done", "formatted"}
    /\ \E inst \in ParseInstances : \E v \in ParseValues :
           instance' = inst /\ value' = v
    /\ result' = <<>>
    /\ formatted' = <<>>
    /\ ppc' = "called"
    /\ RegistryIdle /\ AttributesIdle /\ DetectIdle /\ TypeIdle

ParseReturn ==
    /\ ppc = "called"
    /\ result' = parse_for(instance, value)
    /\ ppc' = "done"
    /\ UNCHANGED <<instance, value, formatted>>
    /\ RegistryIdle /\ AttributesIdle /\ DetectIdle /\ TypeIdle

\* Display of the Value a successful parse returned (lines 25-33).
Format ==
    /\ ppc = "done"
    /\ result.outcome = "ok"
    /\ formatted' = fmt_for(result.value, result.instance)
    /\ ppc' = "formatted"
    /\ UNCHANGED <<instance, value, result>>
    /\ RegistryIdle /\ AttributesIdle /\ DetectIdle /\ TypeIdle

NextParse ==
    \/ ParseCall
    \/ ParseReturn
    \/ Format

SpecParse == Init /\ [][NextParse]_vars

(***************************************************************************)
(* detect_minimal_cycle on its own: a call with a dependency map, then     *)
(* its result.  A map has keys among 1..CycleNodes, each with at most      *)
(* MaxRefs references among 1..CycleNodes; a referenced id that is not a   *)
(* key is a node without edges.                                            *)
(***************************************************************************)
CycleNodes == 4

MaxRefs == 3

DependencySets == {refs \in SUBSET (1..CycleNodes) : Cardinality(refs) <= MaxRefs}

DependencyMaps == UNION {[keys -> DependencySets] : keys \in SUBSET (1..CycleNodes)}

DetectCall ==
    /\ dpc = "idle"
    /\ \E m \in DependencyMaps : deps' = m
    /\ detected' = <<>>
    /\ dpc' = "called"
    /\ RegistryIdle /\ ParserIdle /\ AttributesIdle /\ TypeIdle

DetectReturn ==
    /\ dpc = "called"
    /\ detected' = detect_minimal_cycle(deps)
    /\ dpc' = "done"
    /\ UNCHANGED deps
    /\ RegistryIdle /\ ParserIdle /\ AttributesIdle /\ TypeIdle

NextDetect ==
    \/ DetectCall
    \/ DetectReturn

SpecDetect == Init /\ [][NextDetect]_vars

(***************************************************************************)
(* The attributes of the declarations (src/src/type_attributes): their     *)
(* construction, their wire form and their reading back.                   *)
(*                                                                         *)
(* A bound of a number type is a record: an integer, or a float that is    *)
(* finite (kept in tenths), NaN or an infinity.                            *)
(***************************************************************************)
NumInt(k) == [f |-> "int", n |-> k]

NumFloat(tenths) == [f |-> "finite", n |-> tenths]

NaN == [f |-> "nan", n |-> 0]

Infinity == [f |-> "inf", n |-> 0]

NegInfinity == [f |-> "neginf", n |-> 0]

\* PartialOrd: x > y.  A comparison with NaN is false.
NumGt(x, y) ==
    IF x.f = "int" THEN x.n > y.n
    ELSE /\ x.f # "nan"
         /\ y.f # "nan"
         /\ \/ x.f = "inf" /\ y.f # "inf"
            \/ y.f = "neginf" /\ x.f # "neginf"
            \/ x.f = "finite" /\ y.f = "finite" /\ x.n > y.n

\* PartialEq: NaN is equal to nothing.
NumEq(x, y) == x.f # "nan" /\ y.f # "nan" /\ x = y

InvalidRange(min, max) == [kind |-> "InvalidRange", min |-> min, max |-> max]

\* NumberTypeAttributes::new.
NumberTypeAttributes_new(min, max) ==
    IF min.some /\ max.some /\ NumGt(min.v, max.v)
    THEN [ok |-> FALSE, err |-> InvalidRange(min.v, max.v)]
    ELSE [ok |-> TRUE, v |-> NumberTypeAttributes(min, max)]

\* The names of enum values, in their order (the order of the BTreeMap keys).
EnumNames == <<"bar", "foo", "zoo">>

NameSet == Range(EnumNames)

EnumTypeValue(description, deprecated) ==
    [description |-> description, deprecated |-> deprecated]

EnumTypeAttributes(values, aliases, default) ==
    [values |-> values, aliases |-> aliases, default |-> default]

EnumValueIsAlias(alias) == [kind |-> "EnumValueIsAlias", alias |-> alias]

EnumAliasPointsToNonExistantValue(alias, target) ==
    [kind |-> "EnumAliasPointsToNonExistantValue", alias |-> alias, value |-> target]

DefaultValueIsNotAValidEnumValue(default) ==
    [kind |-> "DefaultValueIsNotAValidEnumValue", default |-> default]

\* Faulty variant: the default is not looked at.
EnumTypeAttributes_new_any_default(values, aliases, default) ==
    LET bad == {i \in 1..Len(EnumNames) :
                   /\ EnumNames[i] \in DOMAIN aliases
                   /\ \/ EnumNames[i] \in DOMAIN values
                      \/ aliases[EnumNames[i]] \notin DOMAIN values}
    IN  IF bad # {}
        THEN LET alias == EnumNames[Min(bad)] IN
             IF alias \in DOMAIN values
             THEN [ok |-> FALSE, err |-> EnumValueIsAlias(alias)]
             ELSE [ok |-> FALSE,
                   err |-> EnumAliasPointsToNonExistantValue(alias, aliases[alias])]
        ELSE [ok |-> TRUE, v |-> EnumTypeAttributes(values, aliases, default)]

\* Faulty variant: the last offending alias decides.
EnumTypeAttributes_new_last_alias(values, aliases, default) ==
    LET bad == {i \in 1..Len(EnumNames) :
                   /\ EnumNames[i] \in DOMAIN aliases
                   /\ \/ EnumNames[i] \in DOMAIN values
                      \/ aliases[EnumNames[i]] \notin DOMAIN values}
    IN  IF bad # {}
        THEN LET alias == EnumNames[CHOOSE i \in bad : \A j \in bad : j <= i] IN
             IF alias \in DOMAIN values
             THEN [ok |-> FALSE, err |-> EnumValueIsAlias(alias)]
             ELSE [ok |-> FALSE,
                   err |-> EnumAliasPointsToNonExistantValue(alias, aliases[alias])]
        ELSE IF default.some /\ default.v \notin DOMAIN values
        THEN [ok |-> FALSE, err |-> DefaultValueIsNotAValidEnumValue(default.v)]
        ELSE [ok |-> TRUE, v |-> EnumTypeAttributes(values, aliases, default)]

\* EnumTypeAttributes::new: the aliases in key order, then the default.
EnumTypeAttributes_new(values, aliases, default) ==
    LET bad == {i \in 1..Len(EnumNames) :
                   /\ EnumNames[i] \in DOMAIN aliases
                   /\ \/ EnumNames[i] \in DOMAIN values
                      \/ aliases[EnumNames[i]] \notin DOMAIN values}
    IN  IF bad # {}
        THEN LET alias == EnumNames[Min(bad)] IN
             IF alias \in DOMAIN values
             THEN [ok |-> FALSE, err |-> EnumValueIsAlias(alias)]
             ELSE [ok |-> FALSE,
                   err |-> EnumAliasPointsToNonExistantValue(alias, aliases[alias])]
        ELSE IF default.some /\ default.v \notin DOMAIN values
        THEN [ok |-> FALSE, err |-> DefaultValueIsNotAValidEnumValue(default.v)]
        ELSE [ok |-> TRUE, v |-> EnumTypeAttributes(values, aliases, default)]

\* The variants of TypeAttributes that carry a number or an enum payload.
NumberAttributes(kind, a) == [type |-> kind, number |-> a]

EnumAttributes(e) == [type |-> "Enum", enum |-> e]

(***************************************************************************)
(* Serialize: the adjacently tagged object, the kind in snake case,        *)
(* fields written in declaration order, skipped fields left out.           *)
(***************************************************************************)
KindNames ==
    <<<<"Array", "array">>, <<"Dictionary", "dictionary">>, <<"Boolean", "boolean">>,
      <<"Int32", "int32">>, <<"Int64", "int64">>, <<"Uint32", "uint32">>,
      <<"Uint64", "uint64">>, <<"Float32", "float32">>, <<"Float64", "float64">>,
      <<"String", "string">>, <<"Enum", "enum">>, <<"Uuid", "uuid">>>>

\* rename_all = "snake_case" on the variants.
SnakeCase(kind) ==
    LET i == CHOOSE j \in 1..Len(KindNames) : KindNames[j][1] = kind
    IN  KindNames[i][2]

\* serde_json on a number: an integer, a finite float, or null for a float
\* that is not finite.
serialize_num(x) ==
    IF x.f = "int"
    THEN JNumber(IF x.n >= 0 THEN PosInt(Wide(x.n)) ELSE NegInt(Wide(x.n)))
    ELSE IF x.f = "finite" THEN JNumber(Float(x.n \div 10, x.n % 10))
    ELSE JNull

\* An optional field: left out when skip_serializing_if holds.
FieldUnless(skip, key, v) == IF skip THEN <<>> ELSE <<<<key, v>>>>

serialize_number(a) ==
    JObject(FieldUnless(~a.min.some, "min", IF a.min.some THEN serialize_num(a.min.v)
                                                          ELSE JNull)
            \o FieldUnless(~a.max.some, "max", IF a.max.some THEN serialize_num(a.max.v)
                                                             ELSE JNull))

serialize_enum_value(ev) ==
    JObject(FieldUnless(~ev.description.some, "description",
                        IF ev.description.some THEN JString(ev.description.v) ELSE JNull)
            \o FieldUnless(~ev.deprecated, "deprecated", JBool(ev.deprecated)))

\* The keys of a BTreeMap over enum names, in order.
SortedNames(S) ==
    LET idx == SetToSortedSeq({i \in 1..Len(EnumNames) : EnumNames[i] \in S})
    IN  [i \in 1..Len(idx) |-> EnumNames[idx[i]]]

serialize_enum(e) ==
    LET vs == SortedNames(DOMAIN e.values)
        as == SortedNames(DOMAIN e.aliases)
    IN  JObject(FieldUnless(vs = <<>>, "values",
                    JObject([i \in 1..Len(vs) |->
                                <<vs[i], serialize_enum_value(e.values[vs[i]])>>]))
                \o FieldUnless(as = <<>>, "aliases",
                    JObject([i \in 1..Len(as) |-> <<as[i], JString(e.aliases[as[i]])>>]))
                \o FieldUnless(~e.default.some, "default",
                    IF e.default.some THEN JString(e.default.v) ELSE JNull))

serialize_id(id) == JNumber(PosInt(Wide(id)))

serialize_payload(a) ==
    IF a.type = "Array" THEN JObject(<<<<"items_type_id", serialize_id(a.items_type_id)>>>>)
    ELSE IF a.type = "Dictionary"
    THEN JObject(<<<<"keys_type_id", serialize_id(a.keys_type_id)>>,
                   <<"values_type_id", serialize_id(a.values_type_id)>>>>)
    ELSE IF a.type \in NumericKinds THEN serialize_number(a.number)
    ELSE IF a.type = "Enum" THEN serialize_enum(a.enum)
    ELSE JObject(<<>>)

serialize(a) ==
    JObject(<<<<"type", JString(SnakeCase(a.type))>>,
              <<"attributes", serialize_payload(a)>>>>)

(***************************************************************************)
(* Deserialize: fields found by name, a missing or null Option is None,    *)
(* number and enum payloads go through new.                                *)
(***************************************************************************)
Decoded(v) == [ok |-> TRUE, v |-> v]

DecodeError(msg) == [ok |-> FALSE, msg |-> msg]

\* The value of the field of an object, when it has one.
Field(obj, key) ==
    LET hits == {i \in 1..Len(obj.entries) : obj.entries[i][1] = key}
    IN  IF hits = {} THEN None ELSE Some(obj.entries[Min(hits)][2])

U32_MAX == <<0, 3, LimbBase - 1>>

\* A JSON number read as a number of the kind.  (Integers of the wire forms
\* explored stay within 32 bits.)
deserialize_num(kind, n) ==
    IF kind \in {"Float32", "Float64"}
    THEN IF n.repr = "Float" THEN Decoded(NumFloat(n.whole * 10 + n.tenths))
         ELSE Decoded(NumFloat(NarrowToI32(n.w) * 10))
    ELSE IF n.repr = "Float" THEN DecodeError("invalid type: floating point")
    ELSE IF \/ kind = "Int32" /\ WideLeq(I32_MIN, n.w) /\ WideLeq(n.w, I32_MAX)
            \/ kind = "Int64" /\ (n.repr = "NegInt" \/ WideLeq(n.w, I64_MAX))
            \/ kind = "Uint32" /\ n.repr = "PosInt" /\ WideLeq(n.w, U32_MAX)
            \/ kind = "Uint64" /\ n.repr = "PosInt"
    THEN Decoded(NumInt(NarrowToI32(n.w)))
    ELSE DecodeError("invalid value")

\* An Option<Num> field.
deserialize_bound(kind, field) ==
    IF ~field.some THEN Decoded(None)
    ELSE IF field.v.t = "Null" THEN Decoded(None)
    ELSE IF field.v.t # "Number" THEN DecodeError("invalid type")
    ELSE LET x == deserialize_num(kind, field.v.n) IN
         IF x.ok THEN Decoded(Some(x.v)) ELSE x

\* Deserialize for NumberTypeAttributes (number.rs lines 30-51).
deserialize_number(kind, payload) ==
    IF payload.t # "Object" THEN DecodeError("invalid type")
    ELSE LET min == deserialize_bound(kind, Field(payload, "min"))
             max == deserialize_bound(kind, Field(payload, "max"))
         IN  IF ~min.ok THEN min
             ELSE IF ~max.ok THEN max
             ELSE LET r == NumberTypeAttributes_new(min.v, max.v) IN
                  IF r.ok THEN Decoded(r.v) ELSE DecodeError(r.err.kind)

\* A map field of the enum payload is well formed: an object whose values
\* have the shape wanted.
IsEnumTypeValue(j) ==
    /\ j.t = "Object"
    /\ Field(j, "description").some => Field(j, "description").v.t \in {"Null", "String"}
    /\ Field(j, "deprecated").some => Field(j, "deprecated").v.t = "Bool"

deserialize_enum_value(j) ==
    LET description == Field(j, "description")
        deprecated == Field(j, "deprecated")
    IN  EnumTypeValue(IF description.some /\ description.v.t = "String"
                      THEN Some(description.v.s) ELSE None,
                      deprecated.some /\ deprecated.v.b)

\* The map of values an object holds: its keys, each with the value read.
deserialize_values(obj) ==
    [k \in {obj.entries[i][1] : i \in 1..Len(obj.entries)} |->
        deserialize_enum_value(Field(obj, k).v)]

\* The map of aliases an object holds.
deserialize_aliases(obj) ==
    [k \in {obj.entries[i][1] : i \in 1..Len(obj.entries)} |-> Field(obj, k).v.s]

\* Deserialize for EnumTypeAttributes (enum.rs lines 118-140).
deserialize_enum(payload) ==
    IF payload.t # "Object" THEN DecodeError("invalid type")
    ELSE LET values == Field(payload, "values")
             aliases == Field(payload, "aliases")
             default == Field(payload, "default")
         IN  IF values.some /\ values.v.t # "Object" THEN DecodeError("invalid type")
             ELSE IF values.some /\ \E i \in 1..Len(values.v.entries) :
                                        ~IsEnumTypeValue(values.v.entries[i][2])
             THEN DecodeError("invalid type")
             ELSE IF aliases.some /\ aliases.v.t # "Object" THEN DecodeError("invalid type")
             ELSE IF aliases.some /\ \E i \in 1..Len(aliases.v.entries) :
                                         aliases.v.entries[i][2].t # "String"
             THEN DecodeError("invalid type")
             ELSE IF default.some /\ default.v.t \notin {"Null", "String"}
             THEN DecodeError("invalid type")
             ELSE LET r == EnumTypeAttributes_new(
                               IF values.some
                               THEN deserialize_values(values.v)
                               ELSE EmptyMap,
                               IF aliases.some THEN deserialize_aliases(aliases.v)
                               ELSE EmptyMap,
                               IF default.some /\ default.v.t = "String"
                               THEN Some(default.v.s) ELSE None)
                  IN  IF r.ok THEN Decoded(r.v) ELSE DecodeError(r.err.kind)

\* An identifier field (Id = u32).
deserialize_id(field) ==
    IF ~field.some THEN DecodeError("missing field")
    ELSE IF field.v.t # "Number" THEN DecodeError("invalid type")
    ELSE IF field.v.n.repr = "PosInt" /\ WideLeq(field.v.n.w, U32_MAX)
    THEN Decoded(NarrowToI32(field.v.n.w))
    ELSE DecodeError("invalid value")

deserialize_payload(kind, payload) ==
    IF kind \in NumericKinds
    THEN LET r == deserialize_number(kind, payload) IN
         IF r.ok THEN Decoded(NumberAttributes(kind, r.v)) ELSE r
    ELSE IF kind = "Enum"
    THEN LET r == deserialize_enum(payload) IN
         IF r.ok THEN Decoded(EnumAttributes(r.v)) ELSE r
    ELSE IF payload.t # "Object" THEN DecodeError("invalid type")
    ELSE IF kind = "Array"
    THEN LET items == deserialize_id(Field(payload, "items_type_id")) IN
         IF items.ok THEN Decoded(ArrayAttributes(items.v)) ELSE items
    ELSE IF kind = "Dictionary"
    THEN LET keys == deserialize_id(Field(payload, "keys_type_id"))
             values == deserialize_id(Field(payload, "values_type_id"))
         IN  IF ~keys.ok THEN keys
             ELSE IF ~values.ok THEN values
             ELSE Decoded(DictionaryAttributes(keys.v, values.v))
    ELSE Decoded(ScalarAttributes(kind))

\* Deserialize for TypeAttributes: tag = "type", content = "attributes".
deserialize(doc) ==
    IF doc.t # "Object" THEN DecodeError("invalid type")
    ELSE LET tag == Field(doc, "type")
             content == Field(doc, "attributes")
         IN  IF ~tag.some THEN DecodeError("missing field")
             ELSE IF tag.v.t # "String" THEN DecodeError("invalid type")
             ELSE IF \A i \in 1..Len(KindNames) : KindNames[i][2] # tag.v.s
             THEN DecodeError("unknown variant")
             ELSE IF ~content.some THEN DecodeError("missing field")
             ELSE LET i == CHOOSE j \in 1..Len(KindNames) : KindNames[j][2] = tag.v.s
                  IN  deserialize_payload(KindNames[i][1], content.v)

\* The derived PartialEq of TypeAttributes.
OptionEq(x, y) == x.some = y.some /\ (x.some => NumEq(x.v, y.v))

AttributesEq(a, b) ==
    /\ a.type = b.type
    /\ IF a.type \in NumericKinds
       THEN OptionEq(a.number.min, b.number.min) /\ OptionEq(a.number.max, b.number.max)
       ELSE a = b

(***************************************************************************)
(* The attributes as a state machine: a builder is filled and built, or    *)
(* attributes without a builder are made; what was made is serialized; a   *)
(* document, serialized here or received, is deserialized.                 *)
(***************************************************************************)
SignedKinds == {"Int32", "Int64"}

FloatKinds == {"Float32", "Float64"}

\* The bounds tried for a kind.
BoundsOf(kind) ==
    IF kind \in FloatKinds
    THEN {NumFloat(0), NumFloat(5), NumFloat(100), NaN, Infinity, NegInfinity}
    ELSE {NumInt(0), NumInt(5), NumInt(10)}
             \cup (IF kind \in SignedKinds THEN {NumInt(-1)} ELSE {})

Descriptions == {None, Some("d")}

\* Attributes made without a builder: new for Array and Dictionary, default
\* for the kinds without fields.
PlainAttributes ==
    {ArrayAttributes(1), DictionaryAttributes(1, 2)}
        \cup {ScalarAttributes(kind) : kind \in {"Boolean", "String", "Uuid"}}

\* What a sender may have put on the wire: any enum content with plain values,
\* any pair of bounds, checked by nobody.
EnumContents ==
    {EnumAttributes(EnumTypeAttributes([n \in vs |-> EnumTypeValue(None, FALSE)],
                                       as, default)) :
        vs \in SUBSET NameSet,
        as \in UNION {[ks -> NameSet] : ks \in SUBSET NameSet},
        default \in {None} \cup {Some(n) : n \in NameSet}}

NumberContents ==
    UNION {{NumberAttributes(kind, NumberTypeAttributes(min, max)) :
               min \in {None} \cup {Some(b) : b \in BoundsOf(kind)},
               max \in {None} \cup {Some(b) : b \in BoundsOf(kind)}} :
           kind \in NumericKinds}

WireContents == EnumContents \cup NumberContents \cup PlainAttributes

NotBuilding == apc \in {"idle"}

\* EnumTypeAttributes::builder.
EnumBuilder ==
    /\ NotBuilding
    /\ builder' = EnumAttributes(EnumTypeAttributes(EmptyMap, EmptyMap, None))
    /\ apc' = "building"
    /\ UNCHANGED <<built, wire, decoded>>
    /\ RegistryIdle /\ ParserIdle /\ DetectIdle /\ TypeIdle

BuilderStep(next) ==
    /\ apc = "building"
    /\ builder' = next
    /\ UNCHANGED <<built, wire, decoded, apc>>
    /\ RegistryIdle /\ ParserIdle /\ DetectIdle /\ TypeIdle

with_value(name) ==
    /\ apc = "building" /\ builder.type = "Enum"
    /\ BuilderStep([builder EXCEPT !.enum.values =
                       MapInsert(@, name, EnumTypeValue(None, FALSE))])

with_value_ext(name, description, deprecated) ==
    /\ apc = "building" /\ builder.type = "Enum"
    /\ BuilderStep([builder EXCEPT !.enum.values =
                       MapInsert(@, name, EnumTypeValue(description, deprecated))])

with_alias(name, target) ==
    /\ apc = "building" /\ builder.type = "Enum"
    /\ BuilderStep([builder EXCEPT !.enum.aliases = MapInsert(@, name, target)])

with_default(name) ==
    /\ apc = "building" /\ builder.type = "Enum"
    /\ BuilderStep([builder EXCEPT !.enum.default = Some(name)])

\* NumberTypeAttributes::builder, for the kind.
NumberBuilder(kind) ==
    /\ NotBuilding
    /\ builder' = NumberAttributes(kind, NumberTypeAttributes(None, None))
    /\ apc' = "building"
    /\ UNCHANGED <<built, wire, decoded>>
    /\ RegistryIdle /\ ParserIdle /\ DetectIdle /\ TypeIdle

BuilderMin ==
    /\ apc = "building" /\ builder.type \in NumericKinds
    /\ \E bound \in BoundsOf(builder.type) :
           BuilderStep([builder EXCEPT !.number.min = Some(bound)])

BuilderMax ==
    /\ apc = "building" /\ builder.type \in NumericKinds
    /\ \E bound \in BoundsOf(builder.type) :
           BuilderStep([builder EXCEPT !.number.max = Some(bound)])

\* build of either builder, the result wrapped in its TypeAttributes variant.
Build ==
    /\ apc = "building"
    /\ LET r == IF builder.type = "Enum"
                THEN EnumTypeAttributes_new(builder.enum.values, builder.enum.aliases,
                                            builder.enum.default)
                ELSE NumberTypeAttributes_new(builder.number.min, builder.number.max)
       IN  built' = IF ~r.ok THEN r
                    ELSE IF builder.type = "Enum"
                    THEN [ok |-> TRUE, attributes |-> EnumAttributes(r.v)]
                    ELSE [ok |-> TRUE, attributes |-> NumberAttributes(builder.type, r.v)]
    /\ apc' = "built"
    /\ UNCHANGED <<builder, wire, decoded>>
    /\ RegistryIdle /\ ParserIdle /\ DetectIdle /\ TypeIdle

\* ArrayTypeAttributes::new, DictionaryTypeAttributes::new, default().
NewPlain ==
    /\ NotBuilding
    /\ \E a \in PlainAttributes :
           /\ builder' = a
           /\ built' = [ok |-> TRUE, attributes |-> a]
    /\ apc' = "built"
    /\ UNCHANGED <<wire, decoded>>
    /\ RegistryIdle /\ ParserIdle /\ DetectIdle /\ TypeIdle

Serialize ==
    /\ apc = "built"
    /\ built.ok
    /\ wire' = serialize(built.attributes)
    /\ apc' = "serialized"
    /\ UNCHANGED <<builder, built, decoded>>
    /\ RegistryIdle /\ ParserIdle /\ DetectIdle /\ TypeIdle

\* A document arrives; builder keeps what its sender wrote.
Receive ==
    /\ NotBuilding
    /\ \E a \in WireContents :
           /\ builder' = a
           /\ wire' = serialize(a)
    /\ apc' = "received"
    /\ UNCHANGED <<built, decoded>>
    /\ RegistryIdle /\ ParserIdle /\ DetectIdle /\ TypeIdle

Deserialize ==
    /\ apc \in {"serialized", "received"}
    /\ decoded' = deserialize(wire)
    /\ apc' = IF apc = "serialized" THEN "roundtrip" ELSE "decoded"
    /\ UNCHANGED <<builder, built, wire>>
    /\ RegistryIdle /\ ParserIdle /\ DetectIdle /\ TypeIdle

NextAttributes ==
    \/ EnumBuilder
    \/ \E name \in NameSet : with_value(name)
    \/ \E name \in NameSet : \E description \in Descriptions :
           with_value_ext(name, description, TRUE)
    \/ \E name \in NameSet : \E target \in NameSet : with_alias(name, target)
    \/ \E name \in NameSet : with_default(name)
    \/ \E kind \in NumericKinds : NumberBuilder(kind)
    \/ BuilderMin
    \/ BuilderMax
    \/ Build
    \/ NewPlain
    \/ Serialize
    \/ Receive
    \/ Deserialize

SpecAttributes == Init /\ [][NextAttributes]_vars

(***************************************************************************)
(* Type and SimpleType (src/src/type.rs, src/src/simple_type.rs): the kind *)
(* of a value with its default, and has_default.  A receiver is a record   *)
(* with the enum it belongs to (of), its variant (type) and the fields of  *)
(* the variant.                                                            *)
(***************************************************************************)
TypeIds == 3

ArrayType(items_type_id) ==
    [of |-> "Type", type |-> "Array", items_type_id |-> items_type_id]

DictionaryType(keys_type_id, values_type_id) ==
    [of |-> "Type", type |-> "Dictionary",
     keys_type_id |-> keys_type_id, values_type_id |-> values_type_id]

ScalarType(of, kind, default) == [of |-> of, type |-> kind, default |-> default]

EnumTypeOf(of, enum) == [of |-> of, type |-> "Enum", enum |-> enum]

DefaultKinds ==
    {"Boolean", "Int32", "Int64", "Uint32", "Uint64", "Float32", "Float64",
     "String", "Uuid"}

\* The default values tried for a kind, each written as its literal.
DefaultsOf(kind) ==
    IF kind = "Boolean" THEN {"true", "false"}
    ELSE IF kind \in {"Int32", "Int64"} THEN {"-1", "0", "1"}
    ELSE IF kind \in {"Uint32", "Uint64"} THEN {"0", "1"}
    ELSE IF kind \in {"Float32", "Float64"} THEN {"0.0", "1.5", "NaN"}
    ELSE IF kind = "String" THEN {"", "a"}
    ELSE {"00000000-0000-0000-0000-000000000000",
          "67e55044-10b1-426f-9247-bb680e5fe0c8"}

Options(S) == {None} \cup {Some(v) : v \in S}

ScalarTypes(of) ==
    UNION {{ScalarType(of, kind, default) : default \in Options(DefaultsOf(kind))} :
              kind \in DefaultKinds}

EnumTypes(of) == {EnumTypeOf(of, [default |-> o]) : o \in Options(NameSet)}

Types ==
    {ArrayType(i) : i \in 1..TypeIds}
        \cup {DictionaryType(k, v) : k \in 1..TypeIds, v \in 1..TypeIds}
        \cup ScalarTypes("Type") \cup EnumTypes("Type")

SimpleTypes == ScalarTypes("SimpleType") \cup EnumTypes("SimpleType")

\* EnumType::has_default.
EnumType_has_default(enum) == enum.default.some

\* The zero, the empty and the false value of a kind.
Falsy == {"false", "0", "0.0", "", "00000000-0000-0000-0000-000000000000"}

\* Faulty variant: a default that is false, zero, empty or nil does not count.
Type_has_default_truthy(self) ==
    IF self.type \in {"Array", "Dictionary"} THEN TRUE
    ELSE IF self.type = "Enum" THEN EnumType_has_default(self.enum)
    ELSE self.default.some /\ self.default.v \notin Falsy

\* Type::has_default.
Type_has_default(self) ==
    IF self.type \in {"Array", "Dictionary"} THEN TRUE
    ELSE IF self.type = "Enum" THEN EnumType_has_default(self.enum)
    ELSE self.default.some

\* SimpleType::has_default.
SimpleType_has_default(self) ==
    IF self.type = "Enum" THEN EnumType_has_default(self.enum)
    ELSE self.default.some

TypeCall ==
    /\ tpc = "idle"
    /\ \E t \in Types : ty' = t
    /\ tpc' = "called"
    /\ UNCHANGED has
    /\ RegistryIdle /\ ParserIdle /\ AttributesIdle /\ DetectIdle

SimpleTypeCall ==
    /\ tpc = "idle"
    /\ \E t \in SimpleTypes : ty' = t
    /\ tpc' = "called"
    /\ UNCHANGED has
    /\ RegistryIdle /\ ParserIdle /\ AttributesIdle /\ DetectIdle

TypeReturn ==
    /\ tpc = "called"
    /\ ty.of = "Type"
    /\ has' = Type_has_default(ty)
    /\ tpc' = "done"
    /\ UNCHANGED ty
    /\ RegistryIdle /\ ParserIdle /\ AttributesIdle /\ DetectIdle

SimpleTypeReturn ==
    /\ tpc = "called"
    /\ ty.of = "SimpleType"
    /\ has' = SimpleType_has_default(ty)
    /\ tpc' = "done"
    /\ UNCHANGED ty
    /\ RegistryIdle /\ ParserIdle /\ AttributesIdle /\ DetectIdle

NextType ==
    \/ TypeCall
    \/ SimpleTypeCall
    \/ TypeReturn
    \/ SimpleTypeReturn

SpecType == Init /\ [][NextType]_vars

(***************************************************************************)
(* What a call returned, read off the state.                               *)
(***************************************************************************)
Returned == pc = "returned"

\* The declaration an instance was made from: every Arc is replaced by the id
\* of the instance it points to.
DeclarationOf(heap, arc) ==
    LET inst == heap[arc]
        a == inst.attributes
    IN  TypeDefinition(inst.id, inst.name,
            IF a.type = "Array" THEN ArrayAttributes(heap[a.items_type_id].id)
            ELSE IF a.type = "Dictionary"
                 THEN DictionaryAttributes(heap[a.keys_type_id].id,
                                           heap[a.values_type_id].id)
                 ELSE a)

SucceededDecls(s) ==
    [i \in 1..Len(s.registered_type_definitions) |->
        DeclarationOf(s.arena, s.registered_type_definitions[i])]

FailedDecls(s) ==
    [i \in 1..Len(s.failed_type_definitions) |-> s.failed_type_definitions[i].td]

Count(seq, x) == Cardinality({i \in 1..Len(seq) : seq[i] = x})

\* Every declaration of tds is in the two lists of s together as often as it is
\* in tds, and the lists hold nothing else.
Classified(s, tds) ==
    /\ Len(tds) = Len(SucceededDecls(s)) + Len(FailedDecls(s))
    /\ \A i \in 1..Len(tds) :
           Count(tds, tds[i]) =
               Count(SucceededDecls(s), tds[i]) + Count(FailedDecls(s), tds[i])

\* The failures reported for the declaration td.
ErrorsOf(td) ==
    {failed_type_definitions[i].err :
        i \in {j \in 1..Len(failed_type_definitions) :
                  failed_type_definitions[j].td = td}}

FailsWith(td, kind) == \E e \in ErrorsOf(td) : e.kind = kind

IsRegistered(td) == \E i \in 1..Len(registered_type_definitions) :
                        SucceededDecls(State)[i] = td

\* The position of the first instance of the succeeded list with the id.
PositionOf(id) ==
    Min({i \in 1..Len(registered_type_definitions) :
            arena[registered_type_definitions[i]].id = id})

(***************************************************************************)
(* C1: when register returns, every declaration of the batch is in the     *)
(* succeeded list and the failed list together exactly as often as it was  *)
(* submitted: none is dropped, none is reported twice.                     *)
(***************************************************************************)
C1_EveryDeclarationOnce == Returned => Classified(State, batch)

(***************************************************************************)
(* C2: when register returns, the registry is the registry of before the   *)
(* call plus one entry, in both indexes, per instance of the succeeded     *)
(* list: the old allocations and the old entries are what they were, the   *)
(* new entries are those of the succeeded instances, and nothing else      *)
(* (so nothing for a failed declaration) was added.                        *)
(***************************************************************************)
C2_OnlySucceededAdded ==
    Returned =>
        LET n0 == Len(before.arena)
            new == Range(registered_type_definitions)
        IN  /\ Len(arena) = n0 + Len(registered_type_definitions)
            /\ \A p \in 1..n0 : arena[p] = before.arena[p]
            /\ \A i \in 1..Len(registered_type_definitions) :
                   registered_type_definitions[i] = n0 + i
            /\ DOMAIN by_id = DOMAIN before.by_id \cup {arena[p].id : p \in new}
            /\ DOMAIN by_name = DOMAIN before.by_name \cup {arena[p].name : p \in new}
            /\ \A k \in DOMAIN before.by_id : by_id[k] = before.by_id[k]
            /\ \A n \in DOMAIN before.by_name : by_name[n] = before.by_name[n]
            /\ \A p \in new : by_id[arena[p].id] = p /\ by_name[arena[p].name] = p
            /\ Cardinality(DOMAIN by_id) =
                   Cardinality(DOMAIN before.by_id) + Len(registered_type_definitions)
            /\ Cardinality(DOMAIN by_name) =
                   Cardinality(DOMAIN before.by_name) + Len(registered_type_definitions)

\* A second call that registered an instance next to older ones.
C2_Witness ==
    /\ Returned
    /\ before.arena # <<>>
    /\ registered_type_definitions # <<>>

(***************************************************************************)
(* C3: in every state the two indexes hold the same instances, each under  *)
(* its own id and its own name.                                            *)
(***************************************************************************)
C3_IndexesConsistent ==
    /\ \A k \in DOMAIN by_id : by_id[k] \in 1..Len(arena) /\ arena[by_id[k]].id = k
    /\ \A n \in DOMAIN by_name :
           by_name[n] \in 1..Len(arena) /\ arena[by_name[n]].name = n
    /\ {by_id[k] : k \in DOMAIN by_id} = {by_name[n] : n \in DOMAIN by_name}
    /\ Cardinality(DOMAIN by_id) = Cardinality(DOMAIN by_name)

\* Two calls have left at least two instances in the indexes.
C3_Witness ==
    /\ Returned
    /\ calls = 2
    /\ Cardinality(DOMAIN by_id) >= 2

(***************************************************************************)
(* C4: in every state each instance links only to instances allocated      *)
(* strictly before it, so the instance graph has no cycle.                 *)
(***************************************************************************)
C4_Acyclic ==
    \A p \in 1..Len(arena) : InstanceLinks(arena[p]) \subseteq 1..(p - 1)

\* An Array or Dictionary instance is registered and a declaration of a later
\* batch failed on a reference cycle.
C4_Witness ==
    /\ Returned
    /\ \E p \in 1..Len(arena) : InstanceLinks(arena[p]) # {}
    /\ \E i \in 1..Len(failed_type_definitions) :
           failed_type_definitions[i].err.kind = "CircularReference"

(***************************************************************************)
(* The reference graph of a batch.                                         *)
(***************************************************************************)
RefsOf(td) == Range(external_identifier_references(td.attributes))

IdsOf(tds) == {tds[i].id : i \in 1..Len(tds)}

\* The ids the declarations of tds with an id of S refer to.
Successors(tds, S) ==
    UNION {RefsOf(tds[i]) : i \in {j \in 1..Len(tds) : tds[j].id \in S}}

RECURSIVE Closure(_, _, _)
Closure(tds, S, n) ==
    IF n = 0 THEN S ELSE Closure(tds, S \cup Successors(tds, S), n - 1)

\* The ids td refers to, directly or through declarations of tds.
Reaches(tds, td) == Closure(tds, RefsOf(td), Len(tds))

SubSeqAt(tds, keep) ==
    LET idx == SetToSortedSeq(keep) IN [k \in 1..Len(idx) |-> tds[idx[k]]]

(***************************************************************************)
(* C5: a failing declaration does not block unrelated ones.  When register *)
(* returns, for every non-empty set F of failed declarations of the batch  *)
(* such that no declaration outside F shares an id or a name with one of F *)
(* or refers to one, directly or transitively: every declaration that      *)
(* register inserts for the batch without F is inserted for the whole      *)
(* batch too, and the whole batch is classified.                           *)
(***************************************************************************)
Unrelated(F) ==
    LET others == (1..Len(batch)) \ F
        idsF == {batch[i].id : i \in F}
        namesF == {batch[i].name : i \in F}
    IN  \A j \in others :
            /\ batch[j].id \notin idsF
            /\ batch[j].name \notin namesF
            /\ Reaches(batch, batch[j]) \cap idsF = {}

FailingSets ==
    {F \in SUBSET (1..Len(batch)) :
        /\ F # {}
        /\ \A i \in F : ErrorsOf(batch[i]) # {}
        /\ Unrelated(F)}

StillInserted(F) ==
    LET r == register(before, SubSeqAt(batch, (1..Len(batch)) \ F))
    IN  \A i \in 1..Len(r.registered_type_definitions) :
            IsRegistered(SucceededDecls(r)[i])

C5_UnrelatedStillInserted == Returned => \A F \in FailingSets : StillInserted(F)

C5_FailureDoesNotBlock ==
    Returned => \A F \in FailingSets : StillInserted(F) /\ Classified(State, batch)

(***************************************************************************)
(* C6, as stated: when register returns and declaration A of the batch     *)
(* refers to declaration B of the batch, all of whose references are       *)
(* registered already, both are in the succeeded list and B is not after   *)
(* A.                                                                      *)
(***************************************************************************)
ResolvedBefore(td) == RefsOf(td) \subseteq DOMAIN before.by_id

BothSucceedInOrder(A, B) ==
    /\ IsRegistered(A)
    /\ IsRegistered(B)
    /\ PositionOf(B.id) <= PositionOf(A.id)

FreshAt(i) ==
    /\ batch[i].id \notin DOMAIN before.by_id
    /\ batch[i].name \notin DOMAIN before.by_name
    /\ \A k \in (1..Len(batch)) \ {i} :
           batch[k].id # batch[i].id /\ batch[k].name # batch[i].name

\* The attributes the id names once B is registered next to the old registry.
KindBehind(id, B) ==
    IF id = B.id THEN B.attributes
    ELSE before.arena[before.by_id[id]].attributes

KeyTypeFits(td, B) ==
    td.attributes.type = "Dictionary"
        => is_key_type(KindBehind(td.attributes.keys_type_id, B))

MissingRefs(td) ==
    {r \in RefsOf(td) : r \notin DOMAIN before.by_id /\ r \notin IdsOf(batch)}

FirstUnresolvable(td) ==
    LET refs == external_identifier_references(td.attributes)
        cand == {k \in 1..Len(refs) :
                    refs[k] \notin DOMAIN by_id /\ refs[k] \notin remaining_ids}
    IN  refs[Min(cand)]

DeclOfId(id) == batch[CHOOSE i \in 1..Len(batch) : batch[i].id = id]

StalledIds ==
    {id \in remaining_ids : ~FailsWith(DeclOfId(id), "BrokenReference")}

EdgesIn(P, id) == RefsOf(DeclOfId(id)) \cap P

RECURSIVE ReachIn(_, _, _)
ReachIn(P, S, n) ==
    IF n = 0 THEN S
    ELSE ReachIn(P, S \cup UNION {EdgesIn(P, id) : id \in S}, n - 1)

\* The ids of P reached from id by one reference or more.
ReachedFrom(P, id) == ReachIn(P, EdgesIn(P, id), Cardinality(P))

CyclicIds(P) == {id \in P : id \in ReachedFrom(P, id)}

OneCycle(P) ==
    LET C == CyclicIds(P) IN
    /\ C # {}
    /\ \A i \in C : Cardinality(EdgesIn(P, i) \cap C) = 1
    /\ \A i \in C : \A j \in C : j \in ReachedFrom(P, i)

\* c is the set C as a closed list of (id, name) pairs in dependency order.
ClosedCycleOf(c, C) ==
    /\ Len(c) = Cardinality(C) + 1
    /\ c[1] = c[Len(c)]
    /\ {c[k][1] : k \in 1..Len(c)} = C
    /\ \A k \in 1..Len(c) : c[k] = <<c[k][1], DeclOfId(c[k][1]).name>>
    /\ \A k \in 1..(Len(c) - 1) : c[k + 1][1] \in RefsOf(DeclOfId(c[k][1]))

(***************************************************************************)
(* C8: when register returns and the declarations pending at the stalled   *)
(* round hold exactly one reference cycle, every declaration on it fails   *)
(* with CircularReference, all with the same closed list of (id, name)     *)
(* pairs in dependency order; a pending declaration that is not on the     *)
(* cycle but refers to it, directly or transitively, fails with            *)
(* BlockedReference; a declaration without references is registered.       *)
(***************************************************************************)
C8_OneCycle ==
    (Returned /\ OneCycle(StalledIds)) =>
        LET P == StalledIds
            C == CyclicIds(P)
        IN  /\ \A i \in C :
                   /\ ErrorsOf(DeclOfId(i)) # {}
                   /\ \A e \in ErrorsOf(DeclOfId(i)) :
                          /\ e.kind = "CircularReference"
                          /\ ClosedCycleOf(e.cycle, C)
            /\ \A i \in C : \A j \in C : ErrorsOf(DeclOfId(i)) = ErrorsOf(DeclOfId(j))
            /\ \A i \in P \ C :
                   ReachedFrom(P, i) \cap C # {}
                       => ErrorsOf(DeclOfId(i)) = {BlockedReference}
            /\ \A k \in 1..Len(batch) : RefsOf(batch[k]) = {} => IsRegistered(batch[k])

\* A cycle of two, a declaration that refers to it and one without references.
C8_Witness ==
    /\ Returned
    /\ OneCycle(StalledIds)
    /\ Cardinality(CyclicIds(StalledIds)) = 2
    /\ \E i \in StalledIds \ CyclicIds(StalledIds) :
           ErrorsOf(DeclOfId(i)) = {BlockedReference}
    /\ registered_type_definitions # <<>>

(***************************************************************************)
(* C9: when register returns, the cycles have been extracted one after the *)
(* other until the pending declarations that were not reported with        *)
(* CircularReference hold no reference cycle, and each CircularReference   *)
(* carries a cycle its declaration is on.                                  *)
(***************************************************************************)
C9_AllCyclesExtracted ==
    Returned =>
        LET circular == {id \in StalledIds : FailsWith(DeclOfId(id), "CircularReference")}
            rest == StalledIds \ circular
        IN  /\ CyclicIds(rest) = {}
            /\ \A id \in circular : \A e \in ErrorsOf(DeclOfId(id)) :
                   id \in {e.cycle[k][1] : k \in 1..Len(e.cycle)}

(***************************************************************************)
(* C10: when register returns, every declaration that was pending at the   *)
(* stalled round and is reported neither with BrokenReference nor with     *)
(* CircularReference is in the failed list with BlockedReference.          *)
(***************************************************************************)
C10_RestBlocked ==
    Returned =>
        \A id \in StalledIds :
            ~FailsWith(DeclOfId(id), "CircularReference")
                => ErrorsOf(DeclOfId(id)) = {BlockedReference}

(***************************************************************************)
(* C11: when register returns, every declaration that lies on a reference  *)
(* cycle among the declarations of the batch (ids distinct) is in the      *)
(* failed list, with CircularReference or BlockedReference and nothing     *)
(* else.                                                                   *)
(***************************************************************************)
C11_CyclicClassified ==
    Returned =>
        \A id \in CyclicIds(IdsOf(batch)) :
            /\ ErrorsOf(DeclOfId(id)) # {}
            /\ \A e \in ErrorsOf(DeclOfId(id)) :
                   e.kind \in {"CircularReference", "BlockedReference"}

\* The weaker half of C11: every such declaration is in the failed list at all.
C11_CyclicReported ==
    Returned => \A id \in CyclicIds(IdsOf(batch)) : ErrorsOf(DeclOfId(id)) # {}

(***************************************************************************)
(* The declarations of a round, in the order the round handles them, and   *)
(* the state in which the k-th of them is handled.                         *)
(***************************************************************************)
Sorted == sort_by_refs_len(type_definitions)

AtDecl(k) ==
    ForEachDecl([State EXCEPT !.type_definitions = <<>>], SubSeq(Sorted, 1, k - 1))

\* s with one more failure and nothing else changed.
FailedOnly(s, td, err) ==
    [s EXCEPT !.failed_type_definitions = Append(@, [td |-> td, err |-> err])]

\* Every occurrence of batch[i] is in the failed list.
AllFailed(i) == Count(FailedDecls(State), batch[i]) = Count(batch, batch[i])

(***************************************************************************)
(* C12: a declaration whose id is in the registry when the round reaches   *)
(* it fails with DuplicateTypeDefinition carrying the name of the instance *)
(* under that id; otherwise one whose name is in the registry fails with   *)
(* DuplicateTypeDefinitionName carrying the id of the instance under that  *)
(* name; in both cases, whatever its references, it is not postponed and   *)
(* the registry and the succeeded list stay as they are.  So a declaration *)
(* whose id was registered before the call is reported with that           *)
(* instance's name, and one whose name was, and under whose id nothing is  *)
(* registered, with that instance's id.                                    *)
(***************************************************************************)
C12_DuplicatesRejected ==
    /\ (pc = "loop") =>
           \A k \in 1..Len(Sorted) :
               LET s == AtDecl(k)
                   td == Sorted[k].td
                   r == ProcessDecl(s, Sorted[k])
               IN  s.pc # "panicked" =>
                       /\ td.id \in DOMAIN s.by_id =>
                              r = FailedOnly(s, td,
                                      [kind |-> "DuplicateTypeDefinition",
                                       existing_name |-> s.arena[s.by_id[td.id]].name])
                       /\ (td.id \notin DOMAIN s.by_id /\ td.name \in DOMAIN s.by_name) =>
                              r = FailedOnly(s, td,
                                      [kind |-> "DuplicateTypeDefinitionName",
                                       existing_id |-> s.arena[s.by_name[td.name]].id])
    /\ Returned =>
           \A i \in 1..Len(batch) :
               /\ batch[i].id \in DOMAIN before.by_id =>
                      /\ AllFailed(i)
                      /\ ErrorsOf(batch[i]) =
                             {[kind |-> "DuplicateTypeDefinition",
                               existing_name |->
                                   before.arena[before.by_id[batch[i].id]].name]}
               /\ (batch[i].id \notin DOMAIN by_id
                       /\ batch[i].name \in DOMAIN before.by_name) =>
                      /\ AllFailed(i)
                      /\ ErrorsOf(batch[i]) =
                             {[kind |-> "DuplicateTypeDefinitionName",
                               existing_id |->
                                   before.arena[before.by_name[batch[i].name]].id]}

\* A declaration with a reference declared nowhere collided with a declaration
\* of its own batch and was reported as a duplicate.
C12_Witness ==
    /\ Returned
    /\ \E i \in 1..Len(batch) :
           /\ MissingRefs(batch[i]) # {}
           /\ batch[i].id \notin DOMAIN before.by_id
           /\ FailsWith(batch[i], "DuplicateTypeDefinition")

(***************************************************************************)
(* C13: when register returns, every declaration of the batch whose id or  *)
(* name was registered before the call is in the failed list as often as   *)
(* it was submitted, no instance was made from it, and the index entries   *)
(* of its id and its name are the instances of before the call.            *)
(***************************************************************************)
C13_NoReRegistration ==
    Returned =>
        \A i \in 1..Len(batch) :
            LET td == batch[i]
                idOld == td.id \in DOMAIN before.by_id
                nameOld == td.name \in DOMAIN before.by_name
            IN  (idOld \/ nameOld) =>
                    /\ AllFailed(i)
                    /\ ~IsRegistered(td)
                    /\ idOld => (td.id \in DOMAIN by_id /\ by_id[td.id] = before.by_id[td.id])
                    /\ nameOld =>
                           (td.name \in DOMAIN by_name
                               /\ by_name[td.name] = before.by_name[td.name])
                    /\ \A p \in (Len(before.arena) + 1)..Len(arena) :
                           /\ idOld => arena[p].id # td.id
                           /\ nameOld => arena[p].name # td.name

\* The declaration an instance of before the call was made from is submitted
\* again and fails.
C13_Witness ==
    /\ Returned
    /\ \E i \in 1..Len(batch) : \E p \in 1..Len(before.arena) :
           /\ DeclarationOf(before.arena, p) = batch[i]
           /\ ErrorsOf(batch[i]) # {}

(***************************************************************************)
(* C14: a declaration without references whose id and name are not in the  *)
(* registry when the round reaches it is registered there and then: a new  *)
(* instance with its id, name and attributes is allocated, entered in      *)
(* by_id under the id and in by_name under the name, and appended to the   *)
(* succeeded list.  That happens in the first round: a declaration         *)
(* without references is pending only at the entry of the call and is      *)
(* never postponed.  So when register returns, such a declaration whose    *)
(* id and name were neither registered before the call nor used by         *)
(* another declaration of the batch is registered under both.              *)
(***************************************************************************)
NoRefsPending(items) == \E i \in 1..Len(items) : items[i].refs = <<>>

C14_FreshScalarRegistered ==
    /\ (pc = "loop") =>
           \A k \in 1..Len(Sorted) :
               LET s == AtDecl(k)
                   td == Sorted[k].td
                   r == ProcessDecl(s, Sorted[k])
                   arc == Len(s.arena) + 1
               IN  (/\ s.pc # "panicked"
                    /\ RefsOf(td) = {}
                    /\ td.id \notin DOMAIN s.by_id
                    /\ td.name \notin DOMAIN s.by_name) =>
                       /\ r.arena = Append(s.arena, [id |-> td.id, name |-> td.name,
                                                     attributes |-> td.attributes])
                       /\ DOMAIN r.by_id = DOMAIN s.by_id \cup {td.id}
                       /\ DOMAIN r.by_name = DOMAIN s.by_name \cup {td.name}
                       /\ r.by_id[td.id] = arc
                       /\ r.by_name[td.name] = arc
                       /\ r.registered_type_definitions =
                              Append(s.registered_type_definitions, arc)
                       /\ r.failed_type_definitions = s.failed_type_definitions
                       /\ r.postponed_type_definitions = s.postponed_type_definitions
    /\ ~NoRefsPending(postponed_type_definitions)
    /\ NoRefsPending(type_definitions) =>
           (pc = "loop" /\ State = Enter(before, batch))
    /\ Returned =>
           \A i \in 1..Len(batch) :
               (RefsOf(batch[i]) = {} /\ FreshAt(i)) =>
                   /\ IsRegistered(batch[i])
                   /\ batch[i].id \in DOMAIN by_id
                   /\ batch[i].name \in DOMAIN by_name
                   /\ by_id[batch[i].id] = by_name[batch[i].name]
                   /\ by_id[batch[i].id] > Len(before.arena)
                   /\ arena[by_id[batch[i].id]] =
                          [id |-> batch[i].id, name |-> batch[i].name,
                           attributes |-> batch[i].attributes]

\* A second call registered a declaration without references next to the
\* instances of the first.
C14_Witness ==
    /\ Returned
    /\ before.arena # <<>>
    /\ \E i \in 1..Len(batch) :
           /\ RefsOf(batch[i]) = {}
           /\ FreshAt(i)
           /\ IsRegistered(batch[i])

(***************************************************************************)
(* Dictionary declarations a round reaches with a fresh id, a fresh name   *)
(* and both references registered.                                         *)
(***************************************************************************)
ReadyDictionary(s, td) ==
    /\ s.pc # "panicked"
    /\ td.attributes.type = "Dictionary"
    /\ td.id \notin DOMAIN s.by_id
    /\ td.name \notin DOMAIN s.by_name
    /\ td.attributes.keys_type_id \in DOMAIN s.by_id
    /\ td.attributes.values_type_id \in DOMAIN s.by_id

\* What C15 says of the Dictionary td handled in the state s with the result r.
KeyTypeDecides(s, td, r) ==
    LET keyArc == s.by_id[td.attributes.keys_type_id]
        key == s.arena[keyArc]
        arc == Len(s.arena) + 1
    IN  /\ key.attributes.type \notin {"String", "Enum", "Uuid"} =>
               /\ r.pc # "panicked"
               /\ Len(r.failed_type_definitions) = Len(s.failed_type_definitions) + 1
               /\ r = FailedOnly(s, td, r.failed_type_definitions[
                                            Len(r.failed_type_definitions)].err)
               /\ LET e == r.failed_type_definitions[Len(r.failed_type_definitions)].err
                  IN  /\ e.kind = "InstantiationError"
                      /\ e.err.kind = "InappropriateKeyType"
                      /\ e.err.key_type_id = key.id
                      /\ e.err.key_type_name = key.name
        /\ key.attributes.type \in {"String", "Enum"} =>
               /\ r.pc # "panicked"
               /\ r.arena = Append(s.arena,
                      [id |-> td.id, name |-> td.name,
                       attributes |->
                           [type |-> "Dictionary", keys_type_id |-> keyArc,
                            values_type_id |-> s.by_id[td.attributes.values_type_id]]])
               /\ r.by_id[td.id] = arc
               /\ r.by_name[td.name] = arc
               /\ r.registered_type_definitions =
                      Append(s.registered_type_definitions, arc)
               /\ r.failed_type_definitions = s.failed_type_definitions

(***************************************************************************)
(* C15: a Dictionary declaration with a fresh id and name and both         *)
(* references registered fails with InstantiationError(InappropriateKey-   *)
(* Type) carrying the id and name of the key type, and changes nothing     *)
(* else, when the key type is not of a key kind; it is instantiated and    *)
(* registered when the key type is a String or an Enum, whatever           *)
(* registered type its values_type_id names, the key type included.        *)
(***************************************************************************)
C15_DictionaryKeyType ==
    (pc = "loop") =>
        \A k \in 1..Len(Sorted) :
            ReadyDictionary(AtDecl(k), Sorted[k].td) =>
                KeyTypeDecides(AtDecl(k), Sorted[k].td, ProcessDecl(AtDecl(k), Sorted[k]))

\* The same for the Dictionaries whose two ids differ.
C15_DictionaryKeyTypeDistinctIds ==
    (pc = "loop") =>
        \A k \in 1..Len(Sorted) :
            (/\ ReadyDictionary(AtDecl(k), Sorted[k].td)
             /\ Sorted[k].td.attributes.keys_type_id #
                    Sorted[k].td.attributes.values_type_id) =>
                KeyTypeDecides(AtDecl(k), Sorted[k].td, ProcessDecl(AtDecl(k), Sorted[k]))

(***************************************************************************)
(* C16: in every state the key type of every Dictionary instance is a      *)
(* String, Enum or Uuid instance.                                          *)
(***************************************************************************)
C16_DictionaryKeysAreKeyTypes ==
    \A p \in 1..Len(arena) :
        arena[p].attributes.type = "Dictionary" =>
            arena[arena[p].attributes.keys_type_id].attributes.type
                \in {"String", "Enum", "Uuid"}

\* A Dictionary instance is registered next to an instance of a kind that is
\* not a key kind.
C16_Witness ==
    /\ Returned
    /\ \E p \in 1..Len(arena) : arena[p].attributes.type = "Dictionary"
    /\ \E p \in 1..Len(arena) : arena[p].attributes.type = "Int32"

(***************************************************************************)
(* C17: no declaration a round reaches makes the call panic: every id that *)
(* instantiation takes out of refs_by_id is in the map at that moment.     *)
(***************************************************************************)
C17_NoFatalLookup ==
    /\ pc # "panicked"
    /\ (pc = "loop") =>
           \A k \in 1..Len(Sorted) :
               AtDecl(k).pc # "panicked" =>
                   ProcessDecl(AtDecl(k), Sorted[k]).pc # "panicked"

(***************************************************************************)
(* C18: register terminates.  A round leaves fewer pending declarations    *)
(* than it found or ends in the stall classification; from n pending       *)
(* declarations at most n rounds are left; an iteration of the cycle loop  *)
(* that finds a cycle reports at least one declaration and leaves fewer    *)
(* pending; so every call is over within 2 * n + 2 steps for a batch of n. *)
(***************************************************************************)
RECURSIVE RoundsLeft(_, _)
RoundsLeft(s, fuel) ==
    IF s.pc # "loop" \/ s.type_definitions = <<>> \/ fuel = 0 THEN 0
    ELSE 1 + RoundsLeft(Round(s), fuel - 1)

RECURSIVE StepsLeft(_, _)
StepsLeft(s, fuel) ==
    IF s.pc \in {"returned", "panicked"} \/ fuel = 0 THEN 0
    ELSE 1 + StepsLeft(Step(s), fuel - 1)

Pending(s) == Len(s.type_definitions) + Len(s.postponed_type_definitions)

C18_Terminates ==
    /\ (pc = "loop" /\ type_definitions # <<>>) =>
           LET r == Round(State)
           IN  \/ r.pc \in {"stalled", "panicked"}
               \/ r.pc = "loop" /\ Len(r.type_definitions) < Len(type_definitions)
    /\ (pc = "loop") =>
           RoundsLeft(State, Len(type_definitions) + 1) <= Len(type_definitions)
    /\ (pc = "cycles" /\ CycleOf(State) # <<>>) =>
           LET r == ExtractCycle(State)
           IN  /\ r.pc = "cycles"
               /\ Len(r.failed_type_definitions) > Len(failed_type_definitions)
               /\ Pending(r) < Pending(State)
    /\ (pc \in {"loop", "stalled", "cycles"}) =>
           StepsLeft(State, 2 * Len(batch) + 3) <= 2 * Len(batch) + 2

\* A call that took more than one round (an Array was registered after an
\* Array that comes later in the batch) and reported a cycle has returned.
C18_Witness ==
    /\ Returned
    /\ FailsWith(batch[1], "CircularReference")
    /\ \E p \in 1..Len(registered_type_definitions) :
       \E q \in (p + 1)..Len(registered_type_definitions) :
           /\ arena[registered_type_definitions[p]].attributes.type = "Array"
           /\ arena[registered_type_definitions[q]].attributes.type = "Array"
           /\ arena[registered_type_definitions[q]].id <
                  arena[registered_type_definitions[p]].id

(***************************************************************************)
(* What the parser is expected to find, stated on the input alone: the     *)
(* first sub-value, in document order, whose shape does not match the kind *)
(* of its instance ("shape"), or that is a number its Int32 instance does  *)
(* not admit ("number").                                                   *)
(***************************************************************************)
ExpectedShape(kind) ==
    IF kind = "Array" THEN "Array"
    ELSE IF kind = "Dictionary" THEN "Object"
    ELSE IF kind = "Boolean" THEN "Bool"
    ELSE IF kind \in {"String", "Enum", "Uuid"} THEN "String"
    ELSE "Number"

\* The number is an integer of the i32 range, not a float.
RepresentableI32(n) ==
    /\ n.repr # "Float"
    /\ WideLeq(I32_MIN, n.w)
    /\ WideLeq(n.w, I32_MAX)

WithinBounds(a, n) ==
    /\ a.min.some => a.min.v <= NarrowToI32(n.w)
    /\ a.max.some => NarrowToI32(n.w) <= a.max.v

NoProblem == [kind |-> "none", path |-> <<>>]

RECURSIVE FirstProblem(_, _), FirstProblemIn(_, _, _), FirstProblemAmong(_, _, _)

FirstProblem(inst, v) ==
    LET a == inst.attributes IN
    IF v.t # ExpectedShape(a.type) THEN [kind |-> "shape", path |-> <<>>]
    ELSE IF a.type = "Array" THEN FirstProblemIn(a.items_type_id, v.items, 0)
    ELSE IF a.type = "Dictionary" THEN FirstProblemAmong(a, v.entries, 0)
    ELSE IF a.type = "Int32" /\ ~(RepresentableI32(v.n) /\ WithinBounds(a.number, v.n))
    THEN [kind |-> "number", path |-> <<>>]
    ELSE NoProblem

FirstProblemIn(items_type, items, i) ==
    IF i = Len(items) THEN NoProblem
    ELSE LET p == FirstProblem(items_type, items[i + 1]) IN
         IF p.kind # "none"
         THEN [kind |-> p.kind,
               path |-> <<[segment |-> "ArrayIndex", index |-> i]>> \o p.path]
         ELSE FirstProblemIn(items_type, items, i + 1)

FirstProblemAmong(a, entries, i) ==
    IF i = Len(entries) THEN NoProblem
    ELSE LET seg == <<[segment |-> "DictionaryKey", key |-> entries[i + 1][1]]>>
             k == FirstProblem(a.keys_type_id, [t |-> "String", s |-> entries[i + 1][1]])
             p == IF k.kind # "none" THEN k
                  ELSE FirstProblem(a.values_type_id, entries[i + 1][2])
         IN  IF p.kind # "none" THEN [kind |-> p.kind, path |-> seg \o p.path]
             ELSE FirstProblemAmong(a, entries, i + 1)

(***************************************************************************)
(* C19: when the first problem of the input is a sub-value whose shape     *)
(* does not match the kind of its instance, parse_for returns an error     *)
(* (it does not panic) whose path leads to that sub-value; for             *)
(* [1, "x", 3] against an Array of Int32 the path is [1].                  *)
(***************************************************************************)
C19_ShapeMismatchIsError ==
    (ppc = "done" /\ FirstProblem(instance, value).kind = "shape") =>
        /\ result.outcome = "err"
        /\ result.path = FirstProblem(instance, value).path

(***************************************************************************)
(* C20: parsing a number that is not exactly an i32 (a float, or an        *)
(* integer outside [-2^31, 2^31 - 1]) against an Int32 instance returns    *)
(* the error InvalidInt32(InvalidValue).                                   *)
(***************************************************************************)
Int32Call ==
    /\ ppc = "done"
    /\ instance.attributes.type = "Int32"
    /\ value.t = "Number"

IsInvalidValue ==
    /\ result.outcome = "err"
    /\ result.path = <<>>
    /\ result.err = [kind |-> "InvalidInt32", err |-> [kind |-> "InvalidValue"]]

C20_NotI32IsInvalidValue ==
    (Int32Call /\ ~RepresentableI32(value.n)) => IsInvalidValue

\* The part of C20 that holds: floats and integers beyond i64::MAX.
C20_FloatOrBeyondI64IsInvalidValue ==
    (Int32Call /\ (value.n.repr = "Float" \/ ~WideLeq(value.n.w, I64_MAX)))
        => IsInvalidValue

(***************************************************************************)
(* C21: against an instance of any numeric kind with min 0 and max 10,     *)
(* the number 5 parses to the value 5 of that kind, 11 fails with          *)
(* GreaterThanMax(11, 10), and 11 given as a float fails with InvalidValue *)
(* for an integer kind.                                                    *)
(***************************************************************************)
IntegerKinds == {"Int32", "Int64", "Uint32", "Uint64"}

\* A call of a numeric instance with min 0 and max 10 on a number has ended.
RangedNumberCall ==
    /\ ppc = "done"
    /\ instance.attributes.type \in NumericKinds
    /\ instance.attributes.number = [min |-> [some |-> TRUE, v |-> 0],
                                     max |-> [some |-> TRUE, v |-> 10]]
    /\ value.t = "Number"

\* The error of a number the bounds do not admit.
NumberError(kind, v, bound) ==
    /\ result.outcome = "err"
    /\ result.path = <<>>
    /\ result.err.err = [kind |-> kind, value |-> v, bound |-> bound]

RoundTripOf5And11 ==
    /\ value.n = [repr |-> "PosInt", w |-> <<0, 0, 5>>] =>
           /\ result.outcome = "ok"
           /\ result.value = [t |-> instance.attributes.type, v |-> 5]
    /\ value.n = [repr |-> "PosInt", w |-> <<0, 0, 11>>] =>
           NumberError("GreaterThanMax", 11, 10)
    /\ (value.n = [repr |-> "Float", whole |-> 11, tenths |-> 0]
            /\ instance.attributes.type \in IntegerKinds) =>
           /\ result.outcome = "err"
           /\ result.err.err = [kind |-> "InvalidValue"]

C21_NumericRoundTrip ==
    RangedNumberCall => RoundTripOf5And11

\* The part of C21 that holds: the Int32 kind, and the inclusive bounds of
\* an Int32 instance: a number of the i32 range is accepted iff no bound
\* excludes it, and the bound it breaks is reported with the number.
C21_Int32RoundTrip ==
    (RangedNumberCall /\ instance.attributes.type = "Int32") => RoundTripOf5And11

C21_Int32BoundsInclusive ==
    (Int32Call /\ RepresentableI32(value.n)) =>
        LET a == instance.attributes.number
            v == NarrowToI32(value.n.w)
        IN  /\ result.outcome = "ok" <=>
                   /\ ~a.min.some \/ v >= a.min.v
                   /\ ~a.max.some \/ v <= a.max.v
            /\ result.outcome = "ok" => result.value = [t |-> "Int32", v |-> v]
            /\ (a.min.some /\ v < a.min.v) => NumberError("LessThanMin", v, a.min.v)
            /\ (a.max.some /\ v > a.max.v) => NumberError("GreaterThanMax", v, a.max.v)

(***************************************************************************)
(* C22: an untyped boolean parsed against a Boolean instance, and an       *)
(* untyped string parsed against a String instance, give a Value that      *)
(* holds exactly the input.                                                *)
(***************************************************************************)
C22_ScalarsPassThrough ==
    /\ (ppc = "done" /\ instance.attributes.type = "Boolean" /\ value.t = "Bool") =>
           /\ result.outcome = "ok"
           /\ result.value = [t |-> "Boolean", v |-> value.b]
    /\ (ppc = "done" /\ instance.attributes.type = "String" /\ value.t = "String") =>
           /\ result.outcome = "ok"
           /\ result.value = [t |-> "String", v |-> value.s]

\* The part of C22 that holds: the boolean.
C22_BooleanPassesThrough ==
    (ppc = "done" /\ instance.attributes.type = "Boolean" /\ value.t = "Bool") =>
        /\ result.outcome = "ok"
        /\ result.value = [t |-> "Boolean", v |-> value.b]
        /\ result.path = <<>>

(***************************************************************************)
(* C23: an object whose keys are strings and whose values are in-range     *)
(* integers, parsed against a Dictionary from String to Int32, gives the   *)
(* (key, value) pairs in input order; when a value of the object is not    *)
(* admitted, the error is InvalidDictionaryValue with the segment of its   *)
(* key on the path.                                                        *)
(***************************************************************************)
\* A call of a Dictionary from String to Int32 on an object has ended.
StringToInt32Call ==
    /\ ppc = "done"
    /\ instance.attributes.type = "Dictionary"
    /\ instance.attributes.keys_type_id.attributes.type = "String"
    /\ instance.attributes.values_type_id.attributes.type = "Int32"
    /\ value.t = "Object"

\* Every value of the object is a number the value type admits.
AllEntriesValid ==
    \A i \in 1..Len(value.entries) :
        /\ value.entries[i][2].t = "Number"
        /\ RepresentableI32(value.entries[i][2].n)
        /\ WithinBounds(instance.attributes.values_type_id.attributes.number,
                        value.entries[i][2].n)

C23_DictionaryEntriesInOrder ==
    /\ (StringToInt32Call /\ AllEntriesValid) =>
           /\ result.outcome = "ok"
           /\ result.value.t = "Dictionary"
           /\ Len(result.value.items) = Len(value.entries)
           /\ \A i \in 1..Len(value.entries) :
                  result.value.items[i] =
                      <<[t |-> "String", v |-> value.entries[i][1]],
                        [t |-> "Int32",
                         v |-> NarrowToI32(value.entries[i][2].n.w)]>>
    /\ (StringToInt32Call /\ ~AllEntriesValid) =>
           /\ result.outcome = "err"
           /\ result.err.kind = "InvalidDictionaryValue"
           /\ Len(result.path) = 1
           /\ result.path[1].segment = "DictionaryKey"

\* The part of C23 that holds: the object without entries.
C23_EmptyObject ==
    (ppc = "done" /\ instance.attributes.type = "Dictionary"
        /\ value.t = "Object" /\ value.entries = <<>>) =>
        /\ result.outcome = "ok"
        /\ result.value = [t |-> "Dictionary", items |-> <<>>]
        /\ result.path = <<>>

(***************************************************************************)
(* C24: an array of n integers that the item type admits, parsed against   *)
(* an Array-of-Int32 instance, gives an Array value of exactly n elements  *)
(* in which element i is the Int32 value of input element i; the empty     *)
(* array gives the empty sequence.                                         *)
(***************************************************************************)
\* A call of an Array-of-Int32 instance on an array has ended.
ArrayOfInt32Call ==
    /\ ppc = "done"
    /\ instance.attributes.type = "Array"
    /\ instance.attributes.items_type_id.attributes.type = "Int32"
    /\ value.t = "Array"

\* Every element is an integer of the i32 range within the item type's bounds.
AllItemsInRange ==
    \A i \in 1..Len(value.items) :
        /\ value.items[i].t = "Number"
        /\ value.items[i].n.repr # "Float"
        /\ WideLeq(I32_MIN, value.items[i].n.w)
        /\ WideLeq(value.items[i].n.w, I32_MAX)
        /\ LET a == instance.attributes.items_type_id.attributes.number
               k == NarrowToI32(value.items[i].n.w)
           IN  /\ a.min.some => a.min.v <= k
               /\ a.max.some => k <= a.max.v

C24_ArrayInOrder ==
    (ArrayOfInt32Call /\ AllItemsInRange) =>
        /\ result.outcome = "ok"
        /\ result.value.t = "Array"
        /\ Len(result.value.items) = Len(value.items)
        /\ \A i \in 1..Len(value.items) :
               result.value.items[i] =
                   [t |-> "Int32", v |-> NarrowToI32(value.items[i].n.w)]

\* [1, 2, 3] has been parsed to [1, 2, 3].
C24_Witness ==
    /\ ArrayOfInt32Call
    /\ value.items = <<[t |-> "Number", n |-> [repr |-> "PosInt", w |-> <<0, 0, 1>>]],
                       [t |-> "Number", n |-> [repr |-> "PosInt", w |-> <<0, 0, 2>>]],
                       [t |-> "Number", n |-> [repr |-> "PosInt", w |-> <<0, 0, 3>>]]>>
    /\ result.outcome = "ok"
    /\ result.value.items = <<[t |-> "Int32", v |-> 1], [t |-> "Int32", v |-> 2],
                              [t |-> "Int32", v |-> 3]>>

(***************************************************************************)
(* C25: when parse_for returns an error inside (nested) arrays, the path   *)
(* of the error is the sequence of ArrayIndex segments from the root to    *)
(* the first failing element in document order, and nothing after that     *)
(* element is parsed: an element further on that would end the call        *)
(* otherwise does not change the outcome.                                  *)
(***************************************************************************)
RECURSIVE ValueAt(_, _)

\* The sub-value of an array that a path of ArrayIndex segments leads to.
ValueAt(v, path) ==
    IF path = <<>> THEN v
    ELSE ValueAt(v.items[path[1].index + 1], Tail(path))

\* A number for which the Int32 arm returns an error: a float, an integer
\* beyond the 64-bit range, or an integer of the i32 range out of bounds.
ReturnsNumberError(n) ==
    \/ n.repr = "Float"
    \/ ~WideLeq(n.w, I64_MAX)
    \/ WideLeq(I32_MIN, n.w) /\ WideLeq(n.w, I32_MAX)

ArrayCall ==
    /\ ppc = "done"
    /\ instance.attributes.type = "Array"
    /\ value.t = "Array"

C25_PathOfOpenFrames ==
    ArrayCall =>
        LET first == FirstProblem(instance, value) IN
        /\ result.outcome = "err" =>
               /\ first.kind = "number"
               /\ result.path = first.path
               /\ \A i \in 1..Len(result.path) : result.path[i].segment = "ArrayIndex"
        /\ (first.kind = "number" /\ ReturnsNumberError(ValueAt(value, first.path).n)) =>
               result.outcome = "err"

\* [[1], [3, 11]] against an Array of Arrays of Int32 with max 10 has failed
\* with the path [1][1].
C25_Witness ==
    /\ ArrayCall
    /\ instance.attributes.items_type_id.attributes.type = "Array"
    /\ Len(value.items) = 2
    /\ \A i \in 1..2 : value.items[i].t = "Array"
    /\ Len(value.items[1].items) = 1
    /\ Len(value.items[2].items) = 2
    /\ result.outcome = "err"
    /\ result.err.err = [kind |-> "GreaterThanMax", value |-> 11, bound |-> 10]
    /\ result.path = <<[segment |-> "ArrayIndex", index |-> 1],
                       [segment |-> "ArrayIndex", index |-> 1]>>

(***************************************************************************)
(* C26: the Value a successful parse_for returns matches the kind of its   *)
(* instance at every level, and formatting it does not panic.              *)
(***************************************************************************)
RECURSIVE Matches(_, _)

Matches(v, inst) ==
    LET a == inst.attributes IN
    /\ v.t = a.type
    /\ a.type = "Array" =>
           \A i \in 1..Len(v.items) : Matches(v.items[i], a.items_type_id)
    /\ a.type = "Dictionary" =>
           \A i \in 1..Len(v.items) :
               /\ Matches(v.items[i][1], a.keys_type_id)
               /\ Matches(v.items[i][2], a.values_type_id)

C26_ValueMatchesInstance ==
    /\ (ppc \in {"done", "formatted"} /\ result.outcome = "ok") =>
           /\ result.instance = instance
           /\ Matches(result.value, result.instance)
    /\ ppc = "formatted" => ~formatted.panic

\* A parsed array of arrays has been formatted.
C26_Witness ==
    /\ ppc = "formatted"
    /\ instance.attributes.type = "Array"
    /\ instance.attributes.items_type_id.attributes.type = "Array"
    /\ formatted = [panic |-> FALSE, out |-> "[[1], [3, 11]]"]

(***************************************************************************)
(* C27: the path of a parse never underflows, is empty again when          *)
(* parse_for succeeds, and when the parse stops at a sub-value it holds    *)
(* one segment per level of nesting of that sub-value.                     *)
(***************************************************************************)
C27_PathBalanced ==
    ppc = "done" =>
        /\ ~(result.outcome = "panic" /\ result.msg = "pop from empty path")
        /\ result.outcome = "ok" => result.path = <<>>
        /\ (result.outcome # "ok" /\ FirstProblem(instance, value).kind # "none") =>
               result.path = FirstProblem(instance, value).path

\* An array of two arrays has been parsed, and the path is empty.
C27_Witness ==
    /\ ArrayCall
    /\ instance.attributes.items_type_id.attributes.type = "Array"
    /\ Len(value.items) = 2
    /\ \A i \in 1..2 : value.items[i].t = "Array"
    /\ Len(value.items[1].items) = 2
    /\ Len(value.items[2].items) = 1
    /\ result.outcome = "ok"
    /\ result.path = <<>>

(***************************************************************************)
(* C28: enum attributes are constructed, by build and by deserialization,  *)
(* if and only if no alias name is a value name, every alias targets a     *)
(* value name, and the default, when there is one, is a value name; what   *)
(* is constructed satisfies the three conditions.                          *)
(***************************************************************************)
EnumValid(e) ==
    /\ \A a \in DOMAIN e.aliases : a \notin DOMAIN e.values
    /\ \A a \in DOMAIN e.aliases : e.aliases[a] \in DOMAIN e.values
    /\ e.default.some => e.default.v \in DOMAIN e.values

C28_EnumConstructedIffValid ==
    /\ (apc \in {"built", "serialized", "roundtrip"} /\ builder.type = "Enum") =>
           /\ built.ok <=> EnumValid(builder.enum)
           /\ built.ok => /\ built.attributes.enum = builder.enum
                          /\ EnumValid(built.attributes.enum)
    /\ (apc \in {"decoded", "roundtrip"} /\ builder.type = "Enum") =>
           /\ decoded.ok <=> EnumValid(builder.enum)
           /\ decoded.ok => /\ decoded.v.type = "Enum"
                            /\ EnumValid(decoded.v.enum)

\* build has rejected an enum in which an alias targets another alias.
C28_Witness ==
    /\ apc = "built"
    /\ builder.type = "Enum"
    /\ DOMAIN builder.enum.values = {"foo"}
    /\ DOMAIN builder.enum.aliases = {"bar", "zoo"}
    /\ builder.enum.aliases["bar"] = "zoo"
    /\ builder.enum.aliases["zoo"] = "foo"
    /\ ~built.ok
    /\ built.err = [kind |-> "EnumAliasPointsToNonExistantValue",
                    alias |-> "bar", value |-> "zoo"]

(***************************************************************************)
(* C29: number attributes are constructed unless both bounds are present   *)
(* and min > max, which fails with InvalidRange(min, max); so constructed  *)
(* number attributes with both bounds satisfy min <= max.                  *)
(***************************************************************************)
\* x <= y, on integers and on floats (false when either is NaN).
NumLeq(x, y) ==
    IF x.f = "int" THEN x.n <= y.n
    ELSE /\ x.f # "nan"
         /\ y.f # "nan"
         /\ \/ x = y
            \/ x.f = "neginf"
            \/ y.f = "inf"
            \/ x.f = "finite" /\ y.f = "finite" /\ x.n <= y.n

BothBounds(a) == a.min.some /\ a.max.some

\* build of a number builder has returned.
NumberBuilt ==
    /\ apc \in {"built", "serialized", "roundtrip"}
    /\ builder.type \in NumericKinds

ConstructedUnlessMinGreater ==
    /\ built.ok <=> ~(BothBounds(builder.number)
                         /\ NumGt(builder.number.min.v, builder.number.max.v))
    /\ built.ok => built.attributes = builder
    /\ ~built.ok => built.err = [kind |-> "InvalidRange",
                                 min |-> builder.number.min.v,
                                 max |-> builder.number.max.v]

MinLeqMax(a) == BothBounds(a) => NumLeq(a.min.v, a.max.v)

C29_RangeInvariant ==
    /\ NumberBuilt => /\ ConstructedUnlessMinGreater
                      /\ built.ok => MinLeqMax(built.attributes.number)
    /\ (apc \in {"decoded", "roundtrip"} /\ builder.type \in NumericKinds
           /\ decoded.ok) => MinLeqMax(decoded.v.number)

\* The parts of C29 that hold: when new fails, for every kind; the invariant
\* for the integer kinds; the invariant for what deserialization constructs.
C29_ConstructedUnlessMinGreater ==
    NumberBuilt => ConstructedUnlessMinGreater

C29_IntegerRangeInvariant ==
    /\ (NumberBuilt /\ builder.type \in IntegerKinds /\ built.ok) =>
           MinLeqMax(built.attributes.number)
    /\ (apc = "decoded" /\ builder.type \in IntegerKinds) =>
           /\ decoded.ok <=> ~(BothBounds(builder.number)
                                  /\ builder.number.min.v.n > builder.number.max.v.n)
           /\ decoded.ok => decoded.v = builder

C29_DeserializedRangeInvariant ==
    (apc \in {"decoded", "roundtrip"} /\ builder.type \in NumericKinds /\ decoded.ok) =>
        MinLeqMax(decoded.v.number)

(***************************************************************************)
(* C30: a TypeAttributes value serializes to an object with the field type *)
(* (the kind in snake case) and the field attributes (the payload); an     *)
(* optional field is written exactly when it is present, and never as      *)
(* null; deserializing the serialized form gives a value equal to the      *)
(* original.                                                               *)
(***************************************************************************)
\* The payload has the field exactly when present holds, and not as null.
WrittenIff(payload, key, present) ==
    /\ Field(payload, key).some <=> present
    /\ Field(payload, key).some => Field(payload, key).v.t # "Null"

WireForm(doc, a) ==
    /\ doc.t = "Object"
    /\ Len(doc.entries) = 2
    /\ Field(doc, "type") = Some([t |-> "String", s |-> SnakeCase(a.type)])
    /\ Field(doc, "attributes").some
    /\ Field(doc, "attributes").v.t = "Object"
    /\ a.type \in NumericKinds =>
           /\ WrittenIff(Field(doc, "attributes").v, "min", a.number.min.some)
           /\ WrittenIff(Field(doc, "attributes").v, "max", a.number.max.some)
    /\ a.type = "Enum" =>
           WrittenIff(Field(doc, "attributes").v, "default", a.enum.default.some)

RoundTrips ==
    /\ decoded.ok
    /\ decoded.v.type = built.attributes.type
    /\ IF decoded.v.type \in NumericKinds
       THEN \A bound \in {"min", "max"} :
                /\ decoded.v.number[bound].some = built.attributes.number[bound].some
                /\ decoded.v.number[bound].some =>
                       /\ decoded.v.number[bound].v.f # "nan"
                       /\ decoded.v.number[bound].v = built.attributes.number[bound].v
       ELSE decoded.v = built.attributes

C30_WireRoundTrip ==
    /\ apc \in {"serialized", "roundtrip"} => WireForm(wire, built.attributes)
    /\ apc = "roundtrip" => RoundTrips

\* A bound that is a float and not finite.
NonFinite(bound) == bound.some /\ bound.v.f \in {"nan", "inf", "neginf"}

\* The part of C30 that holds: every kind, when no bound is a float that is
\* not finite.
C30_WireRoundTripFinite ==
    (apc \in {"serialized", "roundtrip"}
        /\ ~(built.attributes.type \in NumericKinds
                /\ (NonFinite(built.attributes.number.min)
                       \/ NonFinite(built.attributes.number.max)))) =>
        /\ WireForm(wire, built.attributes)
        /\ apc = "roundtrip" => RoundTrips /\ AttributesEq(decoded.v, built.attributes)

(***************************************************************************)
(* C31: a non-empty list returned by detect_minimal_cycle is a closed      *)
(* cycle of the map in dependency order: at least two elements, the first  *)
(* equal to the last, every consecutive pair an edge of the map, and the   *)
(* elements before the closing one pairwise distinct.                      *)
(***************************************************************************)
C31_ClosedCycle ==
    (dpc = "done" /\ detected # <<>>) =>
        /\ Len(detected) >= 2
        /\ detected[1] = detected[Len(detected)]
        /\ \A i \in 1..(Len(detected) - 1) :
               /\ detected[i] \in DOMAIN deps
               /\ detected[i + 1] \in deps[detected[i]]
        /\ \A i \in 1..(Len(detected) - 1) : \A j \in 1..(Len(detected) - 1) :
               detected[i] = detected[j] => i = j

\* For 1 -> 2 -> 3 -> 1 the list [1, 2, 3, 1] has been returned.
C31_Witness ==
    /\ dpc = "done"
    /\ DOMAIN deps = {1, 2, 3}
    /\ deps[1] = {2} /\ deps[2] = {3} /\ deps[3] = {1}
    /\ detected = <<1, 2, 3, 1>>

(***************************************************************************)
(* C32: detect_minimal_cycle returns the empty list if and only if the     *)
(* graph of the map has no cycle, and every element of a returned list     *)
(* lies on a cycle (a node that only leads into a cycle is not returned).  *)
(***************************************************************************)
RECURSIVE ReachableIn(_, _)

\* The nodes reachable from the set S in zero or more edges of the map m.
ReachableIn(m, S) ==
    LET next == S \cup UNION {m[n] : n \in S \cap DOMAIN m}
    IN  IF next = S THEN S ELSE ReachableIn(m, next)

\* The node has an edge from which it is reached again.
LiesOnCycle(m, n) == n \in DOMAIN m /\ n \in ReachableIn(m, m[n])

C32_EmptyIffAcyclic ==
    dpc = "done" =>
        /\ detected = <<>> <=> ~\E n \in DOMAIN deps : LiesOnCycle(deps, n)
        /\ \A i \in 1..Len(detected) : LiesOnCycle(deps, detected[i])

\* Node 1 leads into the cycle 2 -> 3 -> 2 and node 4 is referenced without
\* being a key: the cycle returned holds neither.
C32_Witness ==
    /\ dpc = "done"
    /\ DOMAIN deps = {1, 2, 3}
    /\ deps[1] = {2} /\ deps[2] = {3, 4} /\ deps[3] = {2}
    /\ detected = <<2, 3, 2>>

(***************************************************************************)
(* C33: the succeeded list grows round by round; the instances one round   *)
(* appends are in ascending number of references, and those with the same  *)
(* number of references are in the order of their declarations in the      *)
(* batch.  When register returns, every instance of the list is preceded   *)
(* in it by each instance it links to that was not registered before the   *)
(* call.                                                                  *)
(***************************************************************************)
BatchPosition(id) == CHOOSE i \in 1..Len(batch) : batch[i].id = id

RefCount(id) == Len(external_identifier_references(DeclOfId(id).attributes))

\* The ids of the instances a round appends to the succeeded list of s.
AppendedBy(s, r) ==
    [k \in 1..(Len(r.registered_type_definitions)
                   - Len(s.registered_type_definitions)) |->
        r.arena[r.registered_type_definitions[
                    Len(s.registered_type_definitions) + k]].id]

C33_SucceededOrder ==
    /\ (pc = "loop" /\ type_definitions # <<>>) =>
           LET r == Round(State)
               new == AppendedBy(State, r)
           IN  r.pc # "panicked" =>
                   /\ SubSeq(r.registered_type_definitions, 1,
                             Len(registered_type_definitions))
                          = registered_type_definitions
                   /\ \A p \in 1..Len(new) : \A q \in (p + 1)..Len(new) :
                          \/ RefCount(new[p]) < RefCount(new[q])
                          \/ /\ RefCount(new[p]) = RefCount(new[q])
                             /\ BatchPosition(new[p]) < BatchPosition(new[q])
    /\ Returned =>
           \A p \in 1..Len(registered_type_definitions) :
               \A l \in InstanceLinks(arena[registered_type_definitions[p]]) :
                   \/ l \in 1..Len(before.arena)
                   \/ \E q \in 1..(p - 1) : registered_type_definitions[q] = l

\* The batch [Dictionary 1 of (3, 4), Array 2 of 3, String 3, String 4] was
\* registered in one round: the succeeded list holds 3, 4, 2, 1.
C33_Witness ==
    /\ Returned
    /\ Len(batch) = 4
    /\ batch[1].attributes = DictionaryAttributes(3, 4)
    /\ batch[2].attributes = ArrayAttributes(3)
    /\ [i \in 1..Len(registered_type_definitions) |->
           arena[registered_type_definitions[i]].id] = <<3, 4, 2, 1>>

(***************************************************************************)
(* C34: EnumTypeAttributes::new reports one error, by a fixed precedence.  *)
(* The aliases are examined in ascending order of alias name and the first *)
(* offending one decides; an alias that is also a value name is reported   *)
(* as EnumValueIsAlias even when its target is no value name; an invalid   *)
(* default is reported only when every alias is valid.                     *)
(***************************************************************************)
NameIndex(n) == CHOOSE i \in 1..Len(EnumNames) : EnumNames[i] = n

Offending(e, a) == a \in DOMAIN e.values \/ e.aliases[a] \notin DOMAIN e.values

Offenders(e) == {a \in DOMAIN e.aliases : Offending(e, a)}

FirstOffender(e) ==
    CHOOSE a \in Offenders(e) : \A b \in Offenders(e) : NameIndex(a) <= NameIndex(b)

C34_ErrorPrecedence ==
    (apc = "built" /\ builder.type = "Enum" /\ ~built.ok) =>
        LET e == builder.enum IN
        /\ Offenders(e) # {} =>
               LET a == FirstOffender(e) IN
               /\ a \in DOMAIN e.values =>
                      built.err = [kind |-> "EnumValueIsAlias", alias |-> a]
               /\ a \notin DOMAIN e.values =>
                      built.err = [kind |-> "EnumAliasPointsToNonExistantValue",
                                   alias |-> a, value |-> e.aliases[a]]
        /\ Offenders(e) = {} =>
               /\ e.default.some
               /\ e.default.v \notin DOMAIN e.values
               /\ built.err = [kind |-> "DefaultValueIsNotAValidEnumValue",
                               default |-> e.default.v]
        /\ built.err.kind = "DefaultValueIsNotAValidEnumValue" =>
               \A a \in DOMAIN e.aliases : ~Offending(e, a)

\* Value foo, alias foo to zoo, alias zoo to bar and default bar: the first
\* alias is also a value name and targets no value, the second targets no
\* value, the default is no value; build reports EnumValueIsAlias(foo).
C34_Witness ==
    /\ apc = "built"
    /\ builder.type = "Enum"
    /\ DOMAIN builder.enum.values = {"foo"}
    /\ DOMAIN builder.enum.aliases = {"foo", "zoo"}
    /\ builder.enum.aliases["foo"] = "zoo"
    /\ builder.enum.aliases["zoo"] = "bar"
    /\ builder.enum.default = [some |-> TRUE, v |-> "bar"]
    /\ ~built.ok
    /\ built.err = [kind |-> "EnumValueIsAlias", alias |-> "foo"]

(***************************************************************************)
(* C35: when register returns, a declaration A with a fresh id and name    *)
(* that refers to the id of a declaration B of the same batch, B having    *)
(* failed as a duplicate or in instantiation, with nothing registered      *)
(* under that id and every other reference of A registered, is in the      *)
(* failed list with BrokenReference naming that id.                        *)
(***************************************************************************)
FailedInRound(td) ==
    \/ FailsWith(td, "DuplicateTypeDefinition")
    \/ FailsWith(td, "DuplicateTypeDefinitionName")
    \/ FailsWith(td, "InstantiationError")

\* batch[i] refers to the id of batch[j], which failed in a round; nothing is
\* registered under that id, and the other references of batch[i] are.
RefersToFailed(i, j) ==
    /\ FreshAt(i)
    /\ batch[j].id \in RefsOf(batch[i])
    /\ batch[j].id \notin DOMAIN by_id
    /\ RefsOf(batch[i]) \ {batch[j].id} \subseteq DOMAIN by_id
    /\ FailedInRound(batch[j])

C35_BrokenByFailed ==
    Returned =>
        \A i \in 1..Len(batch) : \A j \in (1..Len(batch)) \ {i} :
            RefersToFailed(i, j) =>
                ErrorsOf(batch[i]) = {BrokenReference(batch[j].id)}

(***************************************************************************)
(* C35, amended: the same, provided every declaration of the batch that    *)
(* carries the id of B failed as a duplicate or in instantiation, so that  *)
(* none of them is pending at the stalled round.                           *)
(***************************************************************************)
C35_BrokenByFailedUnlessPending ==
    Returned =>
        \A i \in 1..Len(batch) : \A j \in (1..Len(batch)) \ {i} :
            (/\ RefersToFailed(i, j)
             /\ \A k \in 1..Len(batch) :
                    batch[k].id = batch[j].id => FailedInRound(batch[k]))
                => ErrorsOf(batch[i]) = {BrokenReference(batch[j].id)}

\* Int32 1 is registered under the name 1.  Of the next batch, a declaration
\* of id 2 under the name 1 fails on its name, Dictionary 2 of (1, 1) fails in
\* instantiation, and Array 3 of 2 is returned with BrokenReference(2).
C35_Witness ==
    /\ Returned
    /\ calls = 2
    /\ Len(batch) = 3
    /\ batch[1].id = 2
    /\ FailsWith(batch[1], "DuplicateTypeDefinitionName")
    /\ batch[2] = TypeDefinition(2, 2, DictionaryAttributes(1, 1))
    /\ FailsWith(batch[2], "InstantiationError")
    /\ batch[3] = TypeDefinition(3, 3, ArrayAttributes(2))
    /\ RefersToFailed(3, 2)
    /\ ErrorsOf(batch[3]) = {BrokenReference(2)}

(***************************************************************************)
(* C36: when register returns, an Array declaration with a fresh id and    *)
(* name whose items_type_id is its own id is not registered and is in the  *)
(* failed list with CircularReference, the cycle being the pair (id, name) *)
(* twice.                                                                  *)
(***************************************************************************)
SelfReferencing(i) ==
    /\ FreshAt(i)
    /\ batch[i].attributes = ArrayAttributes(batch[i].id)

C36_SelfReference ==
    Returned =>
        \A i \in 1..Len(batch) :
            SelfReferencing(i) =>
                /\ batch[i].id \notin DOMAIN by_id
                /\ ErrorsOf(batch[i]) =
                       {CircularReference(<<<<batch[i].id, batch[i].name>>,
                                            <<batch[i].id, batch[i].name>>>>)}

\* Such a declaration is never registered, whatever else the batch holds.
C36_SelfReferenceNotRegistered ==
    \A i \in 1..Len(batch) :
        SelfReferencing(i) =>
            /\ batch[i].id \notin DOMAIN by_id
            /\ ~(Returned /\ IsRegistered(batch[i]))

C38_HasDefault ==
    tpc = "done" =>
        /\ (ty.of = "Type" /\ ty.type \in {"Array", "Dictionary"}) => has
        /\ ty.type \in DefaultKinds => (has <=> ty.default # None)

\* Type::has_default has returned true for an Int32 whose default is 0.
C38_Witness ==
    /\ tpc = "done"
    /\ ty = ScalarType("Type", "Int32", Some("0"))
    /\ has

====
